---- MODULE Spec2Model ----
(***************************************************************************)
(* State-machine model of pybricksdev's device-communication core:         *)
(*   - PybricksHub (src/pybricksdev/connections.py): notification          *)
(*     handlers, race_disconnect, and run() = chunked upload followed by   *)
(*     the run-completion monitor;                                         *)
(*   - BootloaderConnection.flash (src/pybricksdev/flash.py).              *)
(* Bytes are integers 0..255, byte strings are sequences of bytes.         *)
(***************************************************************************)
EXTENDS Integers, Sequences, FiniteSets, TLC

VARIABLES
    \* ---- PybricksHub object state ----
    hub_kind,              \* self.hub_kind, read from the PnP id at connect
    connected,             \* self.connected
    disconnect_observable, \* AsyncSubject: "open" or "completed" (value True)
    status_observable,     \* BehaviorSubject: current StatusFlag word
    stream_buf,            \* self.stream_buf
    output,                \* self.output
    log_file,              \* self.log_file: <<>> (None) or <<path>>
    log_lines,             \* lines printed to the open log file
    loading,               \* self.loading
    handler_error,         \* exceptions that escaped nus_handler: [at, msg], at = the
                           \* number of line_handler calls made up to the raising one
    \* ---- the run() coroutine ----
    mpy,                   \* compiled payload
    wait,                  \* run(wait=...)
    pc,                    \* position of the run() coroutine
    block,                 \* index of the block send_block is working on
    off,                   \* bytes of that block already handed to the transport
    queue,                 \* checksum queue fed by the nus_observable subscription
    subscribed,            \* that subscription is live
    timer,                 \* asyncio.wait_for timer: [ms, expired], ms = 0 when off
    user_program_running,  \* queue fed by the status pipe
    status_sub,            \* status pipe subscription is live
    last_emitted,          \* distinct_until_changed memory: <<>> or <<bool>>
    progress,              \* pbar total
    result,                \* outcome of run()
    \* ---- observation of the run (transport log and consumed events) ----
    written,               \* every write_gatt_char call: [block, data]
    popped,                \* every message send_block took from the queue
    observed,              \* every value the monitor took from its queue
    disc_at,               \* pc of run() when the disconnect fired ("" before)
    orphans,               \* tasks made by race_disconnect that are still pending
                           \* although their race is over
    \* ---- the hub at the other end of the link ----
    hub_checksum,          \* XOR of the bytes the hub received for the current block
    \* ---- BootloaderConnection.flash / flash_firmware ----
    firmware_size,         \* len(firmware)
    device_id,             \* metadata['device-id']
    f_pc,                  \* position of the flash() coroutine
    info,                  \* the GET_INFO reply
    tell,                  \* firmware_io.tell()
    count,                 \* loop counter of flash()
    pbar,                  \* progress reported
    f_connected,           \* the bootloader connection is up
    f_result,              \* outcome of flash()
    f_timer,               \* asyncio.wait_for timer of the GET_CHECKSUM poll
    sent,                  \* every request written: [request, command, payload]
    n_replies,             \* replies flash() has taken
    \* ---- create_firmware ----
    fw_base,               \* base: the base firmware blob
    fw_mpy,                \* mpy: the main.mpy blob
    metadata,              \* metadata: [offset, max_size, checksum_type]
    fw_result,             \* outcome of create_firmware
    \* ---- the hub's output stream and what became of it ----
    line_input,            \* bytes the hub prints while its program runs
    fed,                   \* how many of them have been notified
    dispatched,            \* every line handed to line_handler, in call order
    \* ---- REPLHub ----
    repl                   \* the REPLHub object, its serial port and the coroutine of
                           \* the operation called on it (fields: see ReplIdle)

runVars == <<hub_kind, connected, disconnect_observable, status_observable,
             stream_buf, output, log_file, log_lines, loading, handler_error,
             mpy, wait, pc, block, off, queue, subscribed, timer,
             user_program_running, status_sub, last_emitted, progress, result,
             written, popped, observed, disc_at, orphans, hub_checksum>>

flashVars == <<firmware_size, device_id, f_pc, info, tell, count, pbar, f_connected,
               f_result, f_timer, sent, n_replies>>

fwVars == <<fw_base, fw_mpy, metadata, fw_result>>

lineVars == <<line_input, fed, dispatched>>

replVars == <<repl>>

vars == <<runVars, flashVars, fwVars, lineVars, replVars>>

\* What the steps of one component leave alone: the other components.
notRunVars == <<flashVars, fwVars, lineVars, replVars>>
notFlashVars == <<runVars, fwVars, lineVars, replVars>>
notFwVars == <<runVars, flashVars, lineVars, replVars>>
notReplVars == <<runVars, flashVars, fwVars, lineVars>>
\* nus_handler also adds to the dispatched lines
notNusVars == <<flashVars, fwVars, replVars, line_input, fed>>

\* ------------------------------------------------------------------ bounds

\* Payload lengths are b * BLOCK_SIZE + t with b <= MaxFullBlocks full blocks and
\* a tail of t = 0 or t = MaxTail bytes.
MaxFullBlocks == 1
MaxTail == 21
\* Capacity given to the two asyncio queues and to unread stream data.
MaxQueue == 1
MaxStreamBuf == 1

\* ------------------------------------------------------- program constants

BLOCK_SIZE == 100
BOOST_MTU_PAYLOAD == 20
CHUNK_TIMEOUT_MS == 500
START_GRACE_MS == 200
STOP_GRACE_MS == 300
LENGTH_BYTES == 4
\* StatusFlag.USER_PROGRAM_RUNNING and Event.STATUS_REPORT (pybricksdev.ble.pybricks)
USER_PROGRAM_RUNNING == 64
STATUS_REPORT == 0
\* PybricksHub.EOL
EOL == <<13, 10>>

\* ---------------------------------------------------------- byte helpers

Min(a, b) == IF a < b THEN a ELSE b

\* Bit k of byte x.
Bit(x, k) == (x \div (2 ^ k)) % 2

\* a ^ b on bytes, bit by bit
RECURSIVE XorBits(_, _, _)
XorBits(a, b, k) ==
    IF k > 7 THEN 0
    ELSE (((Bit(a, k) + Bit(b, k)) % 2) * (2 ^ k)) + XorBits(a, b, k + 1)

\* The same as a table, evaluated once.
XorTable == [a \in 0..255 |-> [b \in 0..255 |-> XorBits(a, b, 0)]]

BitXor(a, b) == XorTable[a][b]

\* XOR of data[lo..hi]; XOR is associative, so the range is halved rather than
\* walked byte by byte.
RECURSIVE XorRange(_, _, _)
XorRange(data, lo, hi) ==
    IF lo > hi THEN 0
    ELSE IF lo = hi THEN data[lo]
    ELSE LET mid == (lo + hi) \div 2
         IN  BitXor(XorRange(data, lo, mid), XorRange(data, mid + 1, hi))

\* pybricksdev.tools.checksum.xor_bytes(data, checksum)
xor_bytes(data, checksum) == BitXor(checksum, XorRange(data, 1, Len(data)))

\* pybricksdev.tools.chunk(data, n): consecutive pieces of at most n bytes
chunk(data, n) ==
    [k \in 1..((Len(data) + n - 1) \div n) |->
        SubSeq(data, (k - 1) * n + 1, Min(k * n, Len(data)))]

\* The same bytes, most significant first
to_bytes_big(n, nbytes) == [i \in 1..nbytes |-> ((n \div (256 ^ (nbytes - i))) % 256)]

\* int.to_bytes(nbytes, byteorder="little")
to_bytes_little(n, nbytes) == [i \in 1..nbytes |-> ((n \div (256 ^ (i - 1))) % 256)]

\* bool(s & StatusFlag.USER_PROGRAM_RUNNING)
IsRunning(flags) == (flags \div USER_PROGRAM_RUNNING) % 2 = 1

\* struct.unpack_from("<I", data, 1)
unpack_flags(data) ==
    data[2] + (256 * data[3]) + (65536 * data[4]) + (16777216 * data[5])

\* ------------------------------------------------------------ input sets

TailLens == {0, MaxTail}
PayloadLens == {(b * BLOCK_SIZE) + t : b \in 0..MaxFullBlocks, t \in TailLens}
\* Payload bytes: a fixed pattern that runs through all byte values.
Payload(len) == [i \in 1..len |-> ((37 * i) % 256)]
Payloads == {Payload(len) : len \in PayloadLens}
HubKinds == {"BOOST", "OTHER"}
StatusFlagWords == {0, USER_PROGRAM_RUNNING, USER_PROGRAM_RUNNING + 1}
StatusPayloads ==
    {<<e, f, 0, 0, 0>> : e \in {STATUS_REPORT, STATUS_REPORT + 1}, f \in StatusFlagWords}

\* --------------------------------------------------------- line handling

\* pattern occurs in buf at position i (1-based)
MatchAt(buf, pat, i) ==
    /\ i + Len(pat) - 1 <= Len(buf)
    /\ \A k \in 1..Len(pat) : buf[i + k - 1] = pat[k]

\* bytearray.find(pat, start): 1-based index of the first occurrence at or
\* after start, 0 when there is none
Find(buf, pat, start) ==
    LET hits == {i \in start..Len(buf) : MatchAt(buf, pat, i)}
    IN  IF hits = {} THEN 0 ELSE CHOOSE i \in hits : \A j \in hits : i <= j

Contains(buf, pat) == Find(buf, pat, 1) # 0

PB_OF == <<80, 66, 95, 79, 70, 58>>
FILE_BEGIN == <<95, 102, 105, 108, 101, 95, 98, 101, 103, 105, 110, 95, 32>>
PB_EOF == <<80, 66, 95, 69, 79, 70>>
FILE_END == <<95, 102, 105, 108, 101, 95, 101, 110, 100, 95>>

\* A line handler that lets misplaced markers pass
line_handler_lenient(s, line) ==
    IF Contains(line, PB_OF) \/ Contains(line, FILE_BEGIN)
    THEN [s EXCEPT !.log_file = <<line>>, !.log_lines = <<>>]
    ELSE IF Contains(line, PB_EOF) \/ Contains(line, FILE_END)
    THEN [s EXCEPT !.log_file = <<>>]
    ELSE IF s.log_file # <<>>
    THEN [s EXCEPT !.log_lines = Append(@, line)]
    ELSE [s EXCEPT !.output = Append(@, line)]

\* A line handler that also keeps in the output what it writes to the log
line_handler_tee(s, line) ==
    IF Contains(line, PB_OF) \/ Contains(line, FILE_BEGIN)
    THEN IF s.log_file # <<>>
         THEN [s EXCEPT !.err = "Log file is already open!"]
         ELSE [s EXCEPT !.log_file = <<line>>, !.log_lines = <<>>]
    ELSE IF Contains(line, PB_EOF) \/ Contains(line, FILE_END)
    THEN IF s.log_file = <<>>
         THEN [s EXCEPT !.err = "No log file is currently open!"]
         ELSE [s EXCEPT !.log_file = <<>>]
    ELSE IF s.log_file # <<>>
    THEN [s EXCEPT !.log_lines = Append(@, line), !.output = Append(@, line)]
    ELSE [s EXCEPT !.output = Append(@, line)]

\* One call of line_handler on the session state s =
\* [log_file, log_lines, output, err, calls]; err is set when the call raises.
line_handler(s, line) ==
    IF Contains(line, PB_OF) \/ Contains(line, FILE_BEGIN)
    THEN IF s.log_file # <<>>
         THEN [s EXCEPT !.err = "Log file is already open!"]
         ELSE LET path_start == IF Contains(line, PB_OF) THEN Len(PB_OF)
                                ELSE Len(FILE_BEGIN)
              IN  [s EXCEPT !.log_file = <<SubSeq(line, path_start + 1, Len(line))>>,
                            !.log_lines = <<>>]
    ELSE IF Contains(line, PB_EOF) \/ Contains(line, FILE_END)
    THEN IF s.log_file = <<>>
         THEN [s EXCEPT !.err = "No log file is currently open!"]
         ELSE [s EXCEPT !.log_file = <<>>]
    ELSE IF s.log_file # <<>>
    THEN [s EXCEPT !.log_lines = Append(@, line)]
    ELSE [s EXCEPT !.output = Append(@, line)]

\* The while-loop of nus_handler: split buf at every EOL.
RECURSIVE SplitLines(_, _)
SplitLines(buf, lines) ==
    LET index == Find(buf, EOL, 1)
    IN  IF index = 0 THEN [buf |-> buf, lines |-> lines]
        ELSE SplitLines(SubSeq(buf, index + Len(EOL), Len(buf)),
                        Append(lines, SubSeq(buf, 1, index - 1)))

\* The for-loop of nus_handler: the first line_handler call that raises ends it.
RECURSIVE HandleLines(_, _, _)
HandleLines(s, lines, i) ==
    IF i > Len(lines) \/ s.err # "" THEN s
    ELSE HandleLines([line_handler(s, lines[i]) EXCEPT !.calls = Append(@, lines[i])],
                     lines, i + 1)


\* ------------------------------------------------- PybricksHub: handlers

\* nus_handler(sender, data)
NusHandler(data) ==
    LET buf == IF loading THEN stream_buf ELSE stream_buf \o data
        split == SplitLines(buf, <<>>)
        s0 == [log_file |-> log_file, log_lines |-> log_lines,
               output |-> output, err |-> "", calls |-> <<>>]
        s1 == HandleLines(s0, split.lines, 1)
    IN  /\ queue' = IF subscribed THEN Append(queue, data) ELSE queue
        /\ stream_buf' = split.buf
        /\ log_file' = s1.log_file
        /\ log_lines' = s1.log_lines
        /\ output' = s1.output
        /\ dispatched' = dispatched \o s1.calls
        /\ handler_error' =
              IF s1.err # ""
              THEN Append(handler_error,
                          [at |-> Len(dispatched) + Len(s1.calls), msg |-> s1.err])
              ELSE handler_error

\* A pipe without distinct_until_changed
StatusPipe_every(flags) ==
    IF status_sub
    THEN /\ user_program_running' = Append(user_program_running, IsRunning(flags))
         /\ last_emitted' = <<IsRunning(flags)>>
    ELSE UNCHANGED <<user_program_running, last_emitted>>

\* op.map(bool(s & USER_PROGRAM_RUNNING)) |> op.distinct_until_changed()
\* |> user_program_running.put_nowait, for one value of status_observable
StatusPipe(flags) ==
    LET v == IsRunning(flags)
    IN  IF status_sub /\ last_emitted # <<v>>
        THEN /\ user_program_running' = Append(user_program_running, v)
             /\ last_emitted' = <<v>>
        ELSE UNCHANGED <<user_program_running, last_emitted>>

\* pybricks_service_handler(_, data)
PybricksServiceHandler(data) ==
    IF data[1] = STATUS_REPORT
    THEN /\ status_observable' = unpack_flags(data)
         /\ StatusPipe(unpack_flags(data))
    ELSE UNCHANGED <<status_observable, user_program_running, last_emitted>>

\* -------------------------------------------------------- race_disconnect

InMonitor == pc \in {"mon_first", "mon_start", "mon_stop", "sleep"}

\* race_disconnect(awaitable), seen when asyncio.wait returns: `ready` says the
\* awaitable's task is in `done`, `fired` that the disconnect task is.
race_disconnect(ready, fired) ==
    IF ready THEN "result"
    ELSE IF fired THEN "disconnected"
    ELSE "pending"

\* A wait_for whose timeout is delivered as the disconnect
wait_for_link_lost(inner, expired) ==
    (IF inner = "pending" THEN {} ELSE {inner})
        \cup (IF expired THEN {"disconnected"} ELSE {})

\* asyncio.wait_for(inner, timeout): the outcomes it can resolve to. When the
\* timer has expired and the inner wait is complete as well, either is delivered
\* first.
wait_for(inner, expired) ==
    (IF inner = "pending" THEN {} ELSE {inner}) \cup (IF expired THEN {"timeout"} ELSE {})

DisconnectFired == disconnect_observable = "completed"

\* The tasks of a race_disconnect(q.get()) still pending when the race is over.
\* When asyncio.wait returns, every task in `pending` is cancelled; when the
\* enclosing wait_for times out, CancelledError is raised at `await asyncio.wait`
\* and the cancelling loop is never reached.
race_pending(outcome, ready, fired, q) ==
    IF outcome # "timeout" THEN {}
    ELSE (IF ready THEN {} ELSE {[wait |-> "get", on |-> q]})
            \cup (IF fired THEN {} ELSE {[wait |-> "wait", on |-> "disconnect_event"]})

\* ----------------------------------------------------------- run(): upload

NoResult == [kind |-> "none", type |-> "", msg |-> "", expected |-> -1, actual |-> -1]
Returned == [NoResult EXCEPT !.kind = "returned"]
Raised(type, msg) == [NoResult EXCEPT !.kind = "raised", !.type = type, !.msg = msg]
LinkLost == Raised("RuntimeError", "disconnected during operation")
\* The bad-checksum error with its two values exchanged
BadChecksumSwapped(e, a) ==
    [Raised("RuntimeError", "bad checksum") EXCEPT !.expected = a, !.actual = e]
BadChecksum(e, a) ==
    [Raised("RuntimeError", "bad checksum") EXCEPT !.expected = e, !.actual = a]
TimerOff == [ms |-> 0, expired |-> FALSE]
Armed(ms) == [ms |-> ms, expired |-> FALSE]

\* Blocks in which every payload block is the first one again
Blocks_first_repeated ==
    <<to_bytes_little(Len(mpy), LENGTH_BYTES)>>
        \o [k \in DOMAIN chunk(mpy, BLOCK_SIZE) |-> chunk(mpy, BLOCK_SIZE)[1]]

\* The blocks run() hands to send_block: the length, then chunk(mpy, 100).
Blocks == <<to_bytes_little(Len(mpy), LENGTH_BYTES)>> \o chunk(mpy, BLOCK_SIZE)

\* A send_block that writes every block whole
Pieces_whole(data) == <<data>>

\* The pieces send_block writes for one block.
Pieces(data) ==
    IF hub_kind = "BOOST" THEN chunk(data, BOOST_MTU_PAYLOAD) ELSE <<data>>

\* A finally block that only disposes the subscription
Finally_dispose_only ==
    /\ subscribed' = FALSE
    /\ loading' = loading

\* finally: subscription.dispose(); self.loading = False
Finally ==
    /\ subscribed' = FALSE
    /\ loading' = FALSE

\* The upload ends by raising `err`.
UploadRaise(err) ==
    /\ Finally
    /\ result' = err
    /\ pc' = "done"
    /\ timer' = TimerOff
    /\ UNCHANGED <<block, off, progress, user_program_running, status_sub, last_emitted>>

\* Entering `if wait:`: the pipe's subscription replays the current status.
MonitorEnter ==
    IF wait
    THEN /\ status_sub' = TRUE
         /\ user_program_running' = <<IsRunning(status_observable)>>
         /\ last_emitted' = <<IsRunning(status_observable)>>
         /\ pc' = "mon_first"
         /\ result' = result
    ELSE /\ pc' = "done"
         /\ result' = Returned
         /\ UNCHANGED <<status_sub, user_program_running, last_emitted>>

\* run() up to its first write
RunStart ==
    /\ pc = "idle"
    /\ log_file' = <<>>
    /\ output' = <<>>
    /\ loading' = TRUE
    /\ queue' = <<>>
    /\ subscribed' = TRUE
    /\ block' = 1
    /\ off' = 0
    /\ pc' = "send"
    /\ UNCHANGED <<hub_kind, connected, disconnect_observable, status_observable,
                   stream_buf, log_lines, handler_error, mpy, wait, timer,
                   user_program_running, status_sub, last_emitted, progress, result,
                   written, popped, observed, disc_at, hub_checksum,
                   orphans>>
    /\ UNCHANGED notRunVars

\* send_block: one write_gatt_char call; after the last one the wait for the
\* checksum starts.
SendWrite ==
    /\ pc = "send"
    /\ LET data == Blocks[block]
           pieces == Pieces(data)
           k == (off \div BOOST_MTU_PAYLOAD) + 1
       IN  IF ~connected
           THEN /\ UploadRaise(Raised("BleakError", "not connected"))
                /\ UNCHANGED <<written, hub_checksum>>
           ELSE /\ written' = Append(written, [block |-> block, data |-> pieces[k]])
                /\ hub_checksum' = xor_bytes(pieces[k], IF off = 0 THEN 0 ELSE hub_checksum)
                /\ off' = off + Len(pieces[k])
                /\ IF k = Len(pieces)
                   THEN pc' = "ack" /\ timer' = Armed(CHUNK_TIMEOUT_MS)
                   ELSE pc' = "send" /\ timer' = timer
                /\ UNCHANGED <<subscribed, loading, result, block, progress,
                               user_program_running, status_sub, last_emitted>>
    /\ UNCHANGED <<hub_kind, connected, disconnect_observable, status_observable,
                   stream_buf, output, log_file, log_lines, handler_error, mpy, wait,
                   queue, popped, observed, disc_at,
                   orphans>>
    /\ UNCHANGED notRunVars

\* A comparison that accepts every reply
checksum_accept_all(actual_checksum, expected_checksum) == FALSE

\* if actual_checksum != expected_checksum
checksum_mismatch(actual_checksum, expected_checksum) ==
    actual_checksum # expected_checksum

\* The comparison of send_block and what follows an accepted block.
AckCompare(msg) ==
    LET data == Blocks[block]
        actual_checksum == msg[1]
        expected_checksum == xor_bytes(data, 0)
    IN  IF checksum_mismatch(actual_checksum, expected_checksum)
        THEN UploadRaise(BadChecksum(expected_checksum, actual_checksum))
        ELSE IF block < Len(Blocks)
        THEN /\ block' = block + 1
             /\ off' = 0
             /\ progress' = IF block > 1 THEN progress + Len(data) ELSE progress
             /\ pc' = "send"
             /\ timer' = TimerOff
             /\ UNCHANGED <<subscribed, loading, result, user_program_running,
                            status_sub, last_emitted>>
        ELSE /\ Finally
             /\ progress' = IF block > 1 THEN progress + Len(data) ELSE progress
             /\ timer' = TimerOff
             /\ MonitorEnter
             /\ UNCHANGED <<block, off>>

\* send_block resumes from wait_for(race_disconnect(queue.get()), 0.5)
AckResolve ==
    /\ pc = "ack"
    /\ \E outcome \in wait_for(race_disconnect(queue # <<>>, DisconnectFired),
                                timer.expired) :
        /\ orphans' = orphans \cup race_pending(outcome, queue # <<>>, DisconnectFired,
                                               "queue")
        /\ CASE outcome = "result" ->
                    /\ queue' = Tail(queue)
                    /\ popped' = Append(popped, Head(queue))
                    /\ AckCompare(Head(queue))
             [] outcome = "disconnected" ->
                    /\ UploadRaise(LinkLost)
                    /\ UNCHANGED <<queue, popped>>
             [] outcome = "timeout" ->
                    /\ UploadRaise(Raised("TimeoutError", ""))
                    /\ UNCHANGED <<queue, popped>>
    /\ UNCHANGED <<hub_kind, connected, disconnect_observable, status_observable,
                   stream_buf, output, log_file, log_lines, handler_error, mpy, wait,
                   written, observed, disc_at, hub_checksum>>
    /\ UNCHANGED notRunVars

\* ------------------------------------------- run(): run-completion monitor

\* Leaving the `with ... subscribe(...)` block, by return or by exception.
MonitorExit(res) ==
    /\ status_sub' = FALSE
    /\ result' = res
    /\ pc' = "done"
    /\ timer' = TimerOff

monitorFrame == <<hub_kind, connected, disconnect_observable, status_observable,
                  stream_buf, output, log_file, log_lines, loading, handler_error,
                  mpy, wait, block, off, queue, subscribed, last_emitted, progress,
                  written, popped, disc_at, hub_checksum>>

\* is_running = await self.race_disconnect(user_program_running.get())
MonFirst ==
    /\ pc = "mon_first"
    /\ LET outcome == race_disconnect(user_program_running # <<>>, DisconnectFired)
       IN  /\ outcome # "pending"
           /\ IF outcome = "result"
              THEN /\ user_program_running' = Tail(user_program_running)
                   /\ observed' = Append(observed, Head(user_program_running))
                   /\ IF ~Head(user_program_running)
                      THEN pc' = "mon_start" /\ timer' = Armed(START_GRACE_MS)
                      ELSE pc' = "mon_stop" /\ timer' = TimerOff
                   /\ UNCHANGED <<status_sub, result>>
              ELSE /\ MonitorExit(LinkLost)
                   /\ UNCHANGED <<user_program_running, observed>>
    /\ UNCHANGED monitorFrame
    /\ UNCHANGED orphans
    /\ UNCHANGED notRunVars

\* await asyncio.wait_for(self.race_disconnect(user_program_running.get()), 0.2)
MonStart ==
    /\ pc = "mon_start"
    /\ \E outcome \in wait_for(race_disconnect(user_program_running # <<>>,
                                               DisconnectFired), timer.expired) :
        /\ orphans' = orphans \cup race_pending(outcome, user_program_running # <<>>,
                                               DisconnectFired, "user_program_running")
        /\ CASE outcome = "result" ->
                    /\ user_program_running' = Tail(user_program_running)
                    /\ observed' = Append(observed, Head(user_program_running))
                    /\ pc' = "mon_stop"
                    /\ timer' = TimerOff
                    /\ UNCHANGED <<status_sub, result>>
             [] outcome = "disconnected" ->
                    /\ MonitorExit(LinkLost)
                    /\ UNCHANGED <<user_program_running, observed>>
             [] outcome = "timeout" ->
                    /\ MonitorExit(Returned)
                    /\ UNCHANGED <<user_program_running, observed>>
    /\ UNCHANGED monitorFrame
    /\ UNCHANGED notRunVars

\* is_running = await ...; assert not is_running; then asyncio.sleep(0.3) starts
MonStop ==
    /\ pc = "mon_stop"
    /\ LET outcome == race_disconnect(user_program_running # <<>>, DisconnectFired)
       IN  /\ outcome # "pending"
           /\ IF outcome = "result"
              THEN /\ user_program_running' = Tail(user_program_running)
                   /\ observed' = Append(observed, Head(user_program_running))
                   /\ IF Head(user_program_running)
                      THEN MonitorExit(Raised("AssertionError", ""))
                      ELSE /\ pc' = "sleep"
                           /\ timer' = Armed(STOP_GRACE_MS)
                           /\ UNCHANGED <<status_sub, result>>
              ELSE /\ MonitorExit(LinkLost)
                   /\ UNCHANGED <<user_program_running, observed>>
    /\ UNCHANGED monitorFrame
    /\ UNCHANGED orphans
    /\ UNCHANGED notRunVars

\* A monitor that returns without sleeping out the 0.3 s
SleepReturnAtOnce ==
    /\ pc = "sleep"
    /\ MonitorExit(Returned)
    /\ UNCHANGED <<user_program_running, observed>>
    /\ UNCHANGED monitorFrame
    /\ UNCHANGED orphans
    /\ UNCHANGED notRunVars

\* asyncio.sleep(0.3) is over: run() returns
SleepReturn ==
    /\ pc = "sleep"
    /\ timer.expired
    /\ MonitorExit(Returned)
    /\ UNCHANGED <<user_program_running, observed>>
    /\ UNCHANGED monitorFrame
    /\ UNCHANGED orphans
    /\ UNCHANGED notRunVars

\* ------------------------------------------------------------ environment

\* A byte of program output ("A").
OUTPUT_BYTE == 65

\* First bytes the hub may notify: while a block is being uploaded, its
\* checksum or a wrong checksum; otherwise a byte of output.
HubBytes ==
    IF pc \in {"send", "ack"}
    THEN {hub_checksum, (hub_checksum + 1) % 256}
    ELSE {OUTPUT_BYTE}

\* A notification on the NUS TX characteristic.
NusNotify ==
    /\ connected
    /\ \E b \in HubBytes :
        LET data == <<b>>
        IN  /\ subscribed => Len(queue) < MaxQueue
            /\ ~loading => Len(stream_buf) + Len(data) <= MaxStreamBuf
            /\ NusHandler(data)
    /\ UNCHANGED <<hub_kind, connected, disconnect_observable, status_observable,
                   loading, mpy, wait, pc, block, off, subscribed, timer,
                   user_program_running, status_sub, last_emitted, progress, result,
                   written, popped, observed, disc_at, hub_checksum,
                   orphans>>
    /\ UNCHANGED notNusVars

\* The hub's program prints: a notification carries the next bytes of its output,
\* however many.
LinesNotify ==
    /\ connected
    /\ fed < Len(line_input)
    /\ \E n \in 1..(Len(line_input) - fed) :
        /\ NusHandler(SubSeq(line_input, fed + 1, fed + n))
        /\ fed' = fed + n
    /\ UNCHANGED <<hub_kind, connected, disconnect_observable, status_observable,
                   loading, mpy, wait, pc, block, off, subscribed, timer,
                   user_program_running, status_sub, last_emitted, progress, result,
                   written, popped, observed, disc_at, hub_checksum,
                   orphans>>
    /\ UNCHANGED <<flashVars, fwVars, replVars, line_input>>

\* A notification on the Pybricks control characteristic.
StatusNotify ==
    /\ connected
    /\ pc # "done"
    /\ \E data \in StatusPayloads :
        /\ status_sub => Len(user_program_running) < MaxQueue
        /\ PybricksServiceHandler(data)
    /\ UNCHANGED <<hub_kind, connected, disconnect_observable, stream_buf, output,
                   log_file, log_lines, loading, handler_error, mpy, wait, pc, block,
                   off, queue, subscribed, timer, status_sub, progress, result,
                   written, popped, observed, disc_at, hub_checksum,
                   orphans>>
    /\ UNCHANGED notRunVars

\* connect.handle_disconnect: the link drops
Disconnect ==
    /\ connected
    /\ pc # "done"
    /\ disconnect_observable' = "completed"
    /\ connected' = FALSE
    /\ disc_at' = pc
    /\ UNCHANGED <<hub_kind, status_observable, stream_buf, output, log_file,
                   log_lines, loading, handler_error, mpy, wait, pc, block, off, queue,
                   subscribed, timer, user_program_running, status_sub, last_emitted,
                   progress, result, written, popped, observed, hub_checksum,
                   orphans>>
    /\ UNCHANGED notRunVars

\* The timer of the pending wait_for or sleep runs out.
TimerExpire ==
    /\ timer # TimerOff
    /\ ~timer.expired
    /\ timer' = [timer EXCEPT !.expired = TRUE]
    /\ UNCHANGED <<hub_kind, connected, disconnect_observable, status_observable,
                   stream_buf, output, log_file, log_lines, loading, handler_error,
                   mpy, wait, pc, block, off, queue, subscribed, user_program_running,
                   status_sub, last_emitted, progress, result, written, popped,
                   observed, disc_at, hub_checksum,
                   orphans>>
    /\ UNCHANGED notRunVars

\* ================================================================ flash.py

\* Firmware sizes tried: every size up to MaxSmallFirmware, and LargeFirmware,
\* which is long enough for the loop counter to reach POLL_INTERVAL.
MaxSmallFirmware == 97
LargeFirmware == 31969

max_payload_size == 32
POLL_INTERVAL == 1000
CHECKSUM_TIMEOUT_S == 2

\* The keys of HUB_NAMES
HUB_NAMES == {64, 65, 128}
\* A device-type id HUB_NAMES has no entry for
UNNAMED_ID == 129
TypeIds == HUB_NAMES \cup {UNNAMED_ID}
StartAddrs == {20480}
FirmwareSizes == (0..MaxSmallFirmware) \cup {LargeFirmware}

\* BootloaderRequest.__init__: reply_len = struct.calcsize(data_format), plus one
\* when request_confirm
BootloaderRequest(command, calcsize, request_confirm) ==
    [command |-> command,
     reply_len |-> calcsize + (IF request_confirm THEN 1 ELSE 0)]

\* The static instances
Requests ==
    [ERASE_FLASH |-> BootloaderRequest(17, 1, TRUE),
     PROGRAM_FLASH_BARE |-> BootloaderRequest(34, 0, FALSE),
     PROGRAM_FLASH |-> BootloaderRequest(34, 5, TRUE),
     START_APP |-> BootloaderRequest(51, 0, TRUE),
     INIT_LOADER |-> BootloaderRequest(68, 1, TRUE),
     GET_INFO |-> BootloaderRequest(85, 13, TRUE),
     GET_CHECKSUM |-> BootloaderRequest(102, 1, TRUE),
     GET_FLASH_STATE |-> BootloaderRequest(119, 1, TRUE),
     DISCONNECT |-> BootloaderRequest(136, 0, TRUE)]

\* parse_reply: the reply's first byte is the request's command
parse_ok(name, reply) == reply.command = Requests[name].command

\* What the bootloader may answer to request `name`: a reply that echoes the
\* command, or one that does not.
Replies(name) ==
    {[command |-> c, type_id |-> t, start_addr |-> a] :
        c \in {Requests[name].command, 0},
        t \in (IF name = "GET_INFO" THEN TypeIds ELSE {0}),
        a \in (IF name = "GET_INFO" THEN StartAddrs ELSE {0})}

NoInfo == [command |-> 0, type_id |-> 0, start_addr |-> 0]

\* bootloader_request up to its wait: the request is written; header holds the
\* packed fields that precede the n firmware bytes of the payload.
Send(name, header, n) ==
    sent' = Append(sent, [request |-> name, command |-> Requests[name].command,
                          header |-> header, n |-> n,
                          awaited |-> Requests[name].reply_len > 0])

FReturned == [kind |-> "returned", type |-> "", msg |-> ""]
FRaised(type, msg) == [kind |-> "raised", type |-> type, msg |-> msg]

\* The RuntimeError of the hub-id check; formatting its message looks both ids
\* up in HUB_NAMES.
DeviceMismatch(wanted, got) ==
    IF wanted \in HUB_NAMES /\ got \in HUB_NAMES
    THEN FRaised("RuntimeError", "firmware is for another hub")
    ELSE FRaised("KeyError", "HUB_NAMES")

\* flash() raises
FlashRaise(err) ==
    /\ f_result' = err
    /\ f_pc' = "done"

\* flash() returns; flash_firmware then disconnects
FlashReturn ==
    /\ f_result' = FReturned
    /\ f_pc' = "done"
    /\ f_connected' = FALSE

\* address = info.start_addr + firmware_io.tell()
chunk_address(start_addr, offset) == start_addr + offset

\* A choice that never asks for the confirmed write
flash_request_bare(tell_after, size) == "PROGRAM_FLASH_BARE"

\* The request for a chunk after which firmware_io.tell() is tell_after
flash_request(tell_after, size) ==
    IF tell_after = size THEN "PROGRAM_FLASH" ELSE "PROGRAM_FLASH_BARE"

\* The body of the while loop after the liveness poll: one chunk is written.
WriteChunk ==
    LET address == chunk_address(info.start_addr, tell)
        n == Min(max_payload_size, firmware_size - tell)
        request == flash_request(tell + n, firmware_size)
    IN  /\ tell' = tell + n
        /\ Send(request, <<n + 4>> \o to_bytes_little(address, 4), n)
        /\ IF Requests[request].reply_len > 0
           THEN f_pc' = "flash_reply" /\ pbar' = pbar
           ELSE f_pc' = "loop" /\ pbar' = pbar + n

\* A start that writes ERASE_FLASH without waiting for the GET_INFO reply
FlashStart_pipelined ==
    /\ f_pc = "idle"
    /\ sent' = sent \o
          <<[request |-> "GET_INFO", command |-> Requests["GET_INFO"].command,
             header |-> <<>>, n |-> 0, awaited |-> TRUE],
            [request |-> "ERASE_FLASH", command |-> Requests["ERASE_FLASH"].command,
             header |-> <<>>, n |-> 0, awaited |-> TRUE]>>
    /\ f_pc' = "erase"
    /\ UNCHANGED <<firmware_size, device_id, info, tell, count, pbar, f_connected,
                   f_result, f_timer, n_replies>>
    /\ UNCHANGED notFlashVars

\* flash() up to the wait for the GET_INFO reply
FlashStart ==
    /\ f_pc = "idle"
    /\ Send("GET_INFO", <<>>, 0)
    /\ f_pc' = "get_info"
    /\ UNCHANGED <<firmware_size, device_id, info, tell, count, pbar, f_connected,
                   f_result, f_timer, n_replies>>
    /\ UNCHANGED notFlashVars

\* The GET_INFO reply arrives: the hub-id check, then ERASE_FLASH is written
InfoReply ==
    /\ f_pc = "get_info"
    /\ \E reply \in Replies("GET_INFO") :
        /\ n_replies' = n_replies + 1
        /\ IF ~parse_ok("GET_INFO", reply)
           THEN /\ FlashRaise(FRaised("ValueError", "Unknown message"))
                /\ UNCHANGED <<info, f_connected, sent>>
           ELSE /\ info' = reply
                /\ IF reply.type_id # device_id
                   THEN /\ f_connected' = FALSE
                        /\ FlashRaise(DeviceMismatch(device_id, reply.type_id))
                        /\ UNCHANGED sent
                   ELSE /\ Send("ERASE_FLASH", <<>>, 0)
                        /\ f_pc' = "erase"
                        /\ UNCHANGED <<f_connected, f_result>>
    /\ UNCHANGED <<firmware_size, device_id, tell, count, pbar, f_timer>>
    /\ UNCHANGED notFlashVars

\* The ERASE_FLASH reply arrives; INIT_LOADER is written with the size
EraseReply ==
    /\ f_pc = "erase"
    /\ \E reply \in Replies("ERASE_FLASH") :
        /\ n_replies' = n_replies + 1
        /\ IF ~parse_ok("ERASE_FLASH", reply)
           THEN /\ FlashRaise(FRaised("ValueError", "Unknown message"))
                /\ UNCHANGED sent
           ELSE /\ Send("INIT_LOADER", to_bytes_little(firmware_size, 4), 0)
                /\ f_pc' = "init"
                /\ UNCHANGED f_result
    /\ UNCHANGED <<firmware_size, device_id, info, tell, count, pbar, f_connected,
                   f_timer>>
    /\ UNCHANGED notFlashVars

\* The INIT_LOADER reply arrives; the loop starts
InitReply ==
    /\ f_pc = "init"
    /\ \E reply \in Replies("INIT_LOADER") :
        /\ n_replies' = n_replies + 1
        /\ IF ~parse_ok("INIT_LOADER", reply)
           THEN FlashRaise(FRaised("ValueError", "Unknown message"))
           ELSE f_pc' = "loop" /\ UNCHANGED f_result
    /\ UNCHANGED <<firmware_size, device_id, info, tell, count, pbar, f_connected,
                   f_timer, sent>>
    /\ UNCHANGED notFlashVars

\* One pass of `while firmware_io.tell() != firmware_size` up to its first wait
LoopStep ==
    /\ f_pc = "loop"
    /\ IF tell = firmware_size
       THEN /\ FlashReturn
            /\ UNCHANGED <<tell, count, pbar, f_timer, sent>>
       ELSE /\ count' = count + 1
            /\ IF (count + 1) % POLL_INTERVAL = 0
               THEN /\ Send("GET_CHECKSUM", <<>>, 0)
                    /\ f_pc' = "checksum"
                    /\ f_timer' = CHECKSUM_TIMEOUT_S
                    /\ UNCHANGED <<tell, pbar>>
               ELSE /\ WriteChunk
                    /\ UNCHANGED f_timer
            /\ UNCHANGED <<f_result, f_connected>>
    /\ UNCHANGED <<firmware_size, device_id, info, n_replies>>
    /\ UNCHANGED notFlashVars

\* The GET_CHECKSUM reply arrives in time
ChecksumReply ==
    /\ f_pc = "checksum"
    /\ \E reply \in Replies("GET_CHECKSUM") :
        /\ n_replies' = n_replies + 1
        /\ f_timer' = 0
        /\ IF ~parse_ok("GET_CHECKSUM", reply)
           THEN \* except ValueError: print("Got stuck, try disconnect"); break
                /\ FlashReturn
                /\ UNCHANGED <<tell, pbar, sent>>
           ELSE /\ WriteChunk
                /\ UNCHANGED <<f_result, f_connected>>
    /\ UNCHANGED <<firmware_size, device_id, info, count>>
    /\ UNCHANGED notFlashVars

\* No GET_CHECKSUM reply within 2 s: except asyncio.exceptions.TimeoutError: break
ChecksumTimeout ==
    /\ f_pc = "checksum"
    /\ f_timer' = 0
    /\ FlashReturn
    /\ UNCHANGED <<firmware_size, device_id, info, tell, count, pbar, sent, n_replies>>
    /\ UNCHANGED notFlashVars

\* The reply to the confirmed PROGRAM_FLASH arrives
FlashReply ==
    /\ f_pc = "flash_reply"
    /\ \E reply \in Replies("PROGRAM_FLASH") :
        /\ n_replies' = n_replies + 1
        /\ IF ~parse_ok("PROGRAM_FLASH", reply)
           THEN /\ FlashRaise(FRaised("ValueError", "Unknown message"))
                /\ UNCHANGED pbar
           ELSE /\ pbar' = pbar + sent[Len(sent)].n
                /\ f_pc' = "loop"
                /\ UNCHANGED f_result
    /\ UNCHANGED <<firmware_size, device_id, info, tell, count, f_connected, f_timer,
                   sent>>
    /\ UNCHANGED notFlashVars

\* No flash in progress: the state of these variables in a PybricksHub session.
FlashIdle ==
    /\ firmware_size = 0
    /\ device_id = 64
    /\ f_pc = "idle"
    /\ info = NoInfo
    /\ tell = 0
    /\ count = 0
    /\ pbar = 0
    /\ f_connected = TRUE
    /\ f_result = [kind |-> "none", type |-> "", msg |-> ""]
    /\ f_timer = 0
    /\ sent = <<>>
    /\ n_replies = 0

\* ---------------------------------------------------- create_firmware

MaxBaseLen == 4
MaxMpyLen == 2

\* 32-bit unsigned values are kept as two 16-bit halves <<low, high>>, so that
\* sums wrap at 2^32 exactly.
HALF == 65536
ALL_ONES == <<HALF - 1, HALF - 1>>

\* (x + y) & 0xffffffff
add32(x, y) ==
    LET lo == x[1] + y[1]
        hi == x[2] + y[2] + (lo \div HALF)
    IN  <<lo % HALF, hi % HALF>>

\* struct.unpack('I', word)[0] for a 4-byte word: native byte order, which is
\* little-endian on the hosts the tool runs on
unpack_native(word) == <<word[1] + (256 * word[2]), word[3] + (256 * word[4])>>

\* struct.pack('<I', v) of a 32-bit value
pack_le32(v) == <<v[1] % 256, v[1] \div 256, v[2] % 256, v[2] \div 256>>

\* struct.pack('<I', n) of a small length
pack_len(n) == to_bytes_little(n, 4)

\* 0 for _ in range(n)
Zeros(n) == [i \in 1..n |-> 0]

\* len(range(start, stop, 4))
RangeLen4(start, stop) == IF stop > start THEN (stop - start + 3) \div 4 ELSE 0

\* The first loop of sum_complement: checksum += word, for every 4 bytes read
RECURSIVE SumWords(_, _)
SumWords(fw, i) ==
    IF i > Len(fw) THEN <<0, 0>>
    ELSE add32(unpack_native(SubSeq(fw, i, i + 3)), SumWords(fw, i + 4))

\* The second loop: checksum += 0xffffffff, n times
RECURSIVE AddOnes(_, _)
AddOnes(checksum, n) ==
    IF n = 0 THEN checksum ELSE AddOnes(add32(checksum, ALL_ONES), n - 1)

\* The two's complement left out
correction_plain(checksum) == checksum

\* correction = checksum and (1 << 32) - checksum or 0
correction(checksum) ==
    IF checksum = <<0, 0>> THEN <<0, 0>>
    ELSE <<(HALF - checksum[1]) % HALF,
           (HALF - 1 - checksum[2] + (IF checksum[1] = 0 THEN 1 ELSE 0)) % HALF>>

\* A size check that forgets one word
sum_complement_loose(fw, max_size) ==
    LET size == 4 * ((Len(fw) + 3) \div 4)
        checksum == AddOnes(SumWords(fw, 1), RangeLen4(size, max_size))
    IN  IF size > max_size + 4
        THEN [exit |-> TRUE, correction |-> <<0, 0>>]
        ELSE [exit |-> FALSE, correction |-> correction(checksum)]

\* sum_complement(fw, max_size): exit(1) when size > max_size, else the correction
sum_complement(fw, max_size) ==
    LET size == 4 * ((Len(fw) + 3) \div 4)
        checksum == AddOnes(SumWords(fw, 1), RangeLen4(size, max_size))
    IN  IF size > max_size
        THEN [exit |-> TRUE, correction |-> <<0, 0>>]
        ELSE [exit |-> FALSE, correction |-> correction(checksum)]

NoFirmware == [kind |-> "none", image |-> <<>>, why |-> ""]
FwExit(why) == [kind |-> "exit", image |-> <<>>, why |-> why]

\* create_firmware(base, mpy, metadata)
create_firmware(base, mpy_blob, meta) ==
    LET padded == base \o Zeros(meta.offset - Len(base))
        body == padded \o pack_len(Len(mpy_blob)) \o mpy_blob
        firmware == body \o Zeros((4 - (Len(body) % 4)) % 4)
        sc == sum_complement(firmware, meta.max_size - 4)
    IN  IF meta.checksum_type = "sum"
        THEN IF sc.exit THEN FwExit("size")
             ELSE [kind |-> "image", image |-> firmware \o pack_le32(sc.correction),
                   why |-> ""]
        ELSE FwExit("checksum-type")

\* Input sets
RECURSIVE SeqsUpTo(_, _)
SeqsUpTo(S, n) ==
    IF n = 0 THEN {<<>>}
    ELSE LET shorter == SeqsUpTo(S, n - 1)
         IN  shorter \cup {Append(q, b) : q \in {r \in shorter : Len(r) = n - 1}, b \in S}

BaseBlobs == SeqsUpTo({0, 255}, MaxBaseLen)
MpyBlobs == SeqsUpTo({1, 255}, MaxMpyLen)
Metadatas ==
    [offset : {0, 4, 6}, max_size : {8, 12, 16, 18, 20}, checksum_type : {"sum", "crc32"}]

\* No firmware is being built.
FirmwareIdle ==
    /\ fw_base = <<>>
    /\ fw_mpy = <<>>
    /\ metadata = [offset |-> 0, max_size |-> 8, checksum_type |-> "sum"]
    /\ fw_result = NoFirmware

\* The call create_firmware(base, mpy, metadata)
CreateFirmware ==
    /\ fw_result = NoFirmware
    /\ fw_result' = create_firmware(fw_base, fw_mpy, metadata)
    /\ UNCHANGED <<fw_base, fw_mpy, metadata>>
    /\ UNCHANGED notFwVars

\* ------------------------------------------------------ hub output

MaxLines == 3

\* Line bodies the hub prints: text, an empty line, the markers that open and close
\* a log file
LineBodies == {<<65>>, <<>>, PB_OF \o <<120>>, PB_EOF}
\* What may follow the last complete line: nothing, text, half a terminator
Tails == {<<>>, <<66>>, <<13>>}

RECURSIVE Terminated(_)
Terminated(bodies) ==
    IF bodies = <<>> THEN <<>> ELSE Head(bodies) \o EOL \o Terminated(Tail(bodies))

HubOutputs == {Terminated(b) \o t : b \in SeqsUpTo(LineBodies, MaxLines), t \in Tails}

\* The hub prints nothing.
LinesIdle ==
    /\ line_input = <<>>
    /\ fed = 0
    /\ dispatched = <<>>

\* ------------------------------------------------------------ REPLHub

MaxExtraInput == 1
MaxFileTail == 1
MaxScriptTail == 1
MaxRunLines == 2

FILE_PACKET_SIZE == 1024
ECHO_POLL_MS == 50
IDLE_POLL_MS == 100
ACK_POLL_MS == 10
PASTE_PIECE == 200
PASTE_POLL_MS == 50
RUN_POLL_MS == 100

\* b"ACK" + self.EOL
ACK == <<65, 67, 75>> \o EOL
\* b">>> "
PROMPT == <<62, 62, 62, 32>>
\* b"=== "
PASTE_PROMPT == <<61, 61, 61, 32>>
\* "# File transfer complete"
DONE_LINE == <<35, 32, 70, 105, 108, 101, 32, 116, 114, 97, 110, 115, 102, 101, 114,
               32, 99, 111, 109, 112, 108, 101, 116, 101>>

\* str(n).encode()
RECURSIVE Decimal(_)
Decimal(n) == IF n < 10 THEN <<48 + n>> ELSE Append(Decimal(n \div 10), 48 + (n % 10))

\* f"receive_file('{destination}', {size})".encode()
ReceiveLine(destination, size) ==
    <<114, 101, 99, 101, 105, 118, 101, 95, 102, 105, 108, 101, 40, 39>>
        \o destination \o <<39, 44, 32>> \o Decimal(size) \o <<41>>

\* len(list(chunk(contents, FILE_PACKET_SIZE))) and the length of the k-th chunk
NumPackets(size) == (size + FILE_PACKET_SIZE - 1) \div FILE_PACKET_SIZE
PacketLen(size, k) == Min(FILE_PACKET_SIZE, size - ((k - 1) * FILE_PACKET_SIZE))

\* A REPLHub whose serial port is open, before `op` is called on it.
ReplIdle(op, line, w, size, buffer, waiting) ==
    [pc |-> "idle", op |-> op, stage |-> "", line |-> line, wait |-> w,
     file_size |-> size, packet |-> 0, progress |-> 0,
     print_output |-> FALSE, output |-> <<>>, buffer |-> buffer, log_file |-> <<>>,
     serial_in |-> waiting, serial_out |-> <<>>,
     start_len |-> 0, buffer_now |-> 0, timer |-> TimerOff, result |-> NoResult,
     acks |-> <<>>,
     code |-> <<>>, piece |-> 0, checks |-> <<>>, line_index |-> 0, run_from |-> 0,
     log_lines |-> <<>>, forwarded |-> <<>>, run_output |-> <<>>, run_fed |-> 0,
     answer |-> <<>>, answer_fed |-> 0]

\* reset_buffers(): also reads away what waits in the serial port
reset_buffers(h) ==
    [h EXCEPT !.print_output = FALSE, !.output = <<>>, !.buffer = <<>>,
              !.log_file = <<>>, !.serial_in = <<>>]

\* parse_input()
parse_input(h) == [h EXCEPT !.buffer = @ \o h.serial_in, !.serial_in = <<>>]

\* self.buffer[-len(key):] == key
TailIs(buffer, key) ==
    /\ Len(buffer) >= Len(key)
    /\ SubSeq(buffer, Len(buffer) - Len(key) + 1, Len(buffer)) = key

\* The operation ends.
ReplFinish(h, res) == [h EXCEPT !.pc = "done", !.result = res, !.timer = TimerOff]

\* exec_line up to its first sleep: reset, write the line, wait for the echo
\* (the buffer is empty after the reset, so the loop is always entered)
exec_line(h, line, w) ==
    LET h1 == reset_buffers(h)
        echo == line \o EOL
    IN  [h1 EXCEPT !.line = line, !.wait = w, !.start_len = Len(h1.buffer),
                   !.serial_out = Append(@, [kind |-> "line", data |-> echo,
                                             n |-> Len(echo), at |-> Len(h1.buffer)]),
                   !.pc = "echo_sleep", !.timer = Armed(ECHO_POLL_MS)]

\* upload_file: one pass of the for loop up to its first sleep
send_packet(h, k) ==
    [h EXCEPT !.stage = "packets", !.packet = k, !.buffer_now = Len(h.buffer),
              !.progress = @ + PacketLen(h.file_size, k),
              !.serial_out = Append(@, [kind |-> "packet", data |-> <<>>,
                                        n |-> PacketLen(h.file_size, k),
                                        at |-> Len(h.buffer)]),
              !.pc = "ack_sleep", !.timer = Armed(ACK_POLL_MS)]

\* exec_line returns to its caller: the operation is over, or upload_file goes on
\* with its packets
exec_line_return(h) ==
    IF h.op = "exec_line" \/ h.stage = "end" THEN ReplFinish(h, Returned)
    ELSE IF NumPackets(h.file_size) = 0
    THEN exec_line([h EXCEPT !.stage = "end"], DONE_LINE, TRUE)
    ELSE send_packet(h, 1)

\* while not self.is_idle(): await asyncio.sleep(0.1)
idle_loop(h) ==
    LET h1 == parse_input(h)
    IN  IF TailIs(h1.buffer, PROMPT) THEN exec_line_return(h1)
        ELSE [h1 EXCEPT !.pc = "idle_sleep", !.timer = Armed(IDLE_POLL_MS)]

\* echo in self.buffer[start_len:]
echo_found(buffer, start_len, echo) ==
    Contains(SubSeq(buffer, start_len + 1, Len(buffer)), echo)

\* exec_line after asyncio.sleep(0.05)
echo_wake(h) ==
    LET h1 == parse_input(h)
        echo == h.line \o EOL
    IN  IF Len(h1.buffer) < h.start_len + Len(echo)
        THEN [h1 EXCEPT !.timer = Armed(ECHO_POLL_MS)]
        ELSE IF ~echo_found(h1.buffer, h.start_len, echo)
        THEN ReplFinish(h1, Raised("ValueError", "Failed to execute line"))
        ELSE IF ~h.wait THEN exec_line_return(h1)
        ELSE idle_loop(h1)

\* An acknowledgement check that looks for ACK anywhere after buffer_now
ack_found_anywhere(buffer, buffer_now) ==
    Contains(SubSeq(buffer, buffer_now + 1, Len(buffer)), ACK)

\* self.buffer[buffer_now : buffer_now + len(ACK)] == ACK
ack_found(buffer, buffer_now) ==
    SubSeq(buffer, buffer_now + 1, Min(buffer_now + Len(ACK), Len(buffer))) = ACK

\* upload_file after asyncio.sleep(0.01)
ack_wake(h) ==
    LET h1 == parse_input(h)
        h2 == [h1 EXCEPT !.acks = Append(@, h1.buffer)]
    IN  IF Len(h1.buffer) < h.buffer_now + Len(ACK)
        THEN [h1 EXCEPT !.timer = Armed(ACK_POLL_MS)]
        ELSE IF ~ack_found(h1.buffer, h.buffer_now)
        THEN ReplFinish(h2, Raised("ValueError",
                                   "Did not get expected response from the hub."))
        ELSE IF h.packet < NumPackets(h.file_size) THEN send_packet(h2, h.packet + 1)
        ELSE exec_line([h2 EXCEPT !.stage = "end"], DONE_LINE, TRUE)

\* ------------------------------------------- REPLHub.exec_paste_mode

\* chunk(echo, 200) with echo = encoded + b"\r\n"
PastePieces(h) == chunk(h.code \o EOL, PASTE_PIECE)

\* All bytes the serial port has delivered so far, read or not
Received(h) == Len(h.buffer) + Len(h.serial_in)

\* self.line_handler(line) on the REPLHub; a call that raises ends the operation
forward(h, line) ==
    LET s == line_handler([log_file |-> h.log_file, log_lines |-> h.log_lines,
                           output |-> h.output, err |-> "", calls |-> <<>>], line)
        h1 == [h EXCEPT !.log_file = s.log_file, !.log_lines = s.log_lines,
                        !.output = s.output, !.forwarded = Append(@, line)]
    IN  IF s.err # "" THEN ReplFinish(h1, Raised("RuntimeError", s.err)) ELSE h1

\* An end of exec_paste_mode that leaves the remaining lines alone
drain_none(h) == ReplFinish(h, Returned)

\* while (next_line_index := self.buffer.find(self.EOL, line_index)) >= 0
RECURSIVE drain(_)
drain(h) ==
    LET next == Find(h.buffer, EOL, h.line_index + 1)
    IN  IF next = 0 THEN ReplFinish(h, Returned)
        ELSE LET h1 == forward(h, SubSeq(h.buffer, h.line_index + 1, next - 1))
             IN  IF h1.pc = "done" THEN h1
                 ELSE drain([h1 EXCEPT !.line_index = next - 1 + Len(EOL)])

\* The test of `while not self.is_idle()` and, when idle, what follows the loop
run_poll(h) ==
    LET h1 == parse_input(h)
    IN  IF TailIs(h1.buffer, PROMPT) THEN drain(h1)
        ELSE [h1 EXCEPT !.pc = "run_scan", !.timer = TimerOff]

\* The body of that loop up to its sleep: at most one line is handled
run_scan(h) ==
    LET h1 == parse_input(h)
        next == Find(h1.buffer, EOL, h1.line_index + 1)
        h2 == IF next = 0 THEN h1
              ELSE forward([h1 EXCEPT !.line_index = next - 1 + Len(EOL)],
                           SubSeq(h1.buffer, h1.line_index + 1, next - 1))
    IN  IF h2.pc = "done" THEN h2
        ELSE [h2 EXCEPT !.pc = "run_sleep", !.timer = Armed(RUN_POLL_MS)]

\* From `line_index = len(self.buffer)` on: leave paste mode, return or watch
paste_exit(h) ==
    LET h1 == [h EXCEPT !.line_index = Len(h.buffer), !.run_from = Len(h.buffer),
                        !.output = <<>>,
                        !.serial_out = Append(@, [kind |-> "exit", data |-> <<4>>,
                                                  n |-> 1, at |-> Received(h)])]
    IN  IF ~h.wait THEN ReplFinish(h1, Returned) ELSE run_poll(h1)

\* The for loop over the pieces, from the write of piece k up to the next sleep
RECURSIVE paste_send(_, _)
RECURSIVE paste_check(_)
paste_send(h, k) ==
    IF k > Len(PastePieces(h)) THEN paste_exit(h)
    ELSE LET c == PastePieces(h)[k]
             h1 == [h EXCEPT !.piece = k, !.answer = <<>>, !.answer_fed = 0,
                             !.serial_out = Append(@, [kind |-> "piece", data |-> c,
                                                       n |-> Len(c), at |-> Received(h)])]
         IN  IF Len(h1.buffer) < h1.start_len + Len(c)
             THEN [h1 EXCEPT !.pc = "paste_sleep", !.timer = Armed(PASTE_POLL_MS)]
             ELSE paste_check(h1)

\* if c not in self.buffer[start_len:]: raise; start_len += len(c)
paste_check(h) ==
    LET c == PastePieces(h)[h.piece]
        h1 == [h EXCEPT !.checks = Append(@, [buffer |-> h.buffer,
                                              start_len |-> h.start_len])]
    IN  IF ~echo_found(h.buffer, h.start_len, c)
        THEN ReplFinish(h1, Raised("ValueError", "Failed to paste"))
        ELSE paste_send([h1 EXCEPT !.start_len = @ + Len(c)], h.piece + 1)

\* The echo loop of a piece after asyncio.sleep(0.05)
paste_wake(h) ==
    LET h1 == parse_input(h)
    IN  IF Len(h1.buffer) < h.start_len + Len(PastePieces(h)[h.piece])
        THEN [h1 EXCEPT !.timer = Armed(PASTE_POLL_MS)]
        ELSE paste_check(h1)

\* while not self.is_idle(key=b"=== "): await asyncio.sleep(0.1)
prompt_poll(h) ==
    LET h1 == parse_input(h)
    IN  IF TailIs(h1.buffer, PASTE_PROMPT)
        THEN paste_send([h1 EXCEPT !.start_len = Len(h1.buffer)], 1)
        ELSE [h1 EXCEPT !.pc = "prompt_sleep", !.timer = Armed(IDLE_POLL_MS)]

\* exec_paste_mode(code, wait, print_output) is called
ExecPasteStart ==
    /\ repl.pc = "idle"
    /\ repl.op = "exec_paste_mode"
    /\ LET h == reset_buffers(repl)
       IN  repl' = prompt_poll([h EXCEPT !.print_output = TRUE,
                                         !.serial_out = Append(@, [kind |-> "enter",
                                                                   data |-> <<5>>, n |-> 1,
                                                                   at |-> Received(h)])])
    /\ UNCHANGED notReplVars

\* The coroutine resumes from asyncio.sleep in the paste prompt loop
PromptWake ==
    /\ repl.pc = "prompt_sleep"
    /\ repl.timer.expired
    /\ repl' = prompt_poll(repl)
    /\ UNCHANGED notReplVars

\* ... in the echo loop of a piece
PasteWake ==
    /\ repl.pc = "paste_sleep"
    /\ repl.timer.expired
    /\ repl' = paste_wake(repl)
    /\ UNCHANGED notReplVars

\* The loop watching the running script goes on after its is_idle() test
RunScan ==
    /\ repl.pc = "run_scan"
    /\ repl' = run_scan(repl)
    /\ UNCHANGED notReplVars

\* The coroutine resumes from asyncio.sleep in that loop
RunWake ==
    /\ repl.pc = "run_sleep"
    /\ repl.timer.expired
    /\ repl' = run_poll(repl)
    /\ UNCHANGED notReplVars

\* In paste mode the hub answers the control byte with the paste prompt and a
\* piece with its echo; a stray "X" may come first. The answer is settled when
\* its first bytes arrive, and it arrives whole or all but its last byte first.
HubAnswer ==
    /\ repl.pc \in {"prompt_sleep", "paste_sleep"}
    /\ LET awaited == IF repl.pc = "prompt_sleep" THEN PASTE_PROMPT
                      ELSE PastePieces(repl)[repl.piece]
       IN  \E answer \in (IF repl.answer_fed = 0
                          THEN {awaited} \cup {<<88>> \o awaited : i \in 1..MaxExtraInput}
                          ELSE {repl.answer}) :
             \E n \in {Len(answer) - repl.answer_fed - 1, Len(answer) - repl.answer_fed} :
                 /\ n > 0
                 /\ repl' = [repl EXCEPT !.answer = answer,
                                         !.serial_in = @ \o SubSeq(answer, repl.answer_fed + 1,
                                                                    repl.answer_fed + n),
                                         !.answer_fed = @ + n]
    /\ UNCHANGED notReplVars

\* What a script may print before the REPL prompt returns
RunOutputs ==
    {Terminated(b) \o PROMPT : b \in SeqsUpTo({<<65>>, <<>>, PB_EOF}, MaxRunLines)}

\* The running script prints: the next bytes of its output reach the serial port.
\* What it prints in all is settled when its first bytes arrive.
HubPrint ==
    /\ repl.pc \in {"run_scan", "run_sleep"}
    /\ \E out \in (IF repl.run_fed = 0 THEN RunOutputs ELSE {repl.run_output}) :
          \E n \in 1..(Len(out) - repl.run_fed) :
              repl' = [repl EXCEPT !.run_output = out,
                                   !.serial_in = @ \o SubSeq(out, repl.run_fed + 1,
                                                              repl.run_fed + n),
                                   !.run_fed = @ + n]
    /\ UNCHANGED notReplVars

\* exec_line(line, wait) is called
ExecLineStart ==
    /\ repl.pc = "idle"
    /\ repl.op = "exec_line"
    /\ repl' = exec_line(repl, repl.line, repl.wait)
    /\ UNCHANGED notReplVars

\* upload_file(destination, contents) is called
UploadFileStart ==
    /\ repl.pc = "idle"
    /\ repl.op = "upload_file"
    /\ repl' = exec_line(reset_buffers([repl EXCEPT !.stage = "begin"]),
                         ReceiveLine(<<102>>, repl.file_size), FALSE)
    /\ UNCHANGED notReplVars

\* The coroutine resumes from asyncio.sleep in exec_line's echo loop
EchoWake ==
    /\ repl.pc = "echo_sleep"
    /\ repl.timer.expired
    /\ repl' = echo_wake(repl)
    /\ UNCHANGED notReplVars

\* ... in exec_line's idle loop
IdleWake ==
    /\ repl.pc = "idle_sleep"
    /\ repl.timer.expired
    /\ repl' = idle_loop(repl)
    /\ UNCHANGED notReplVars

\* ... in upload_file's acknowledgement loop
AckWake ==
    /\ repl.pc = "ack_sleep"
    /\ repl.timer.expired
    /\ repl' = ack_wake(repl)
    /\ UNCHANGED notReplVars

\* The time of the pending asyncio.sleep is over.
ReplTimerExpire ==
    /\ repl.timer # TimerOff
    /\ ~repl.timer.expired
    /\ repl' = [repl EXCEPT !.timer.expired = TRUE]
    /\ UNCHANGED notReplVars

\* What the pending wait is waiting for, and the buffer length that ends it
Awaited ==
    IF repl.pc = "echo_sleep" THEN repl.line \o EOL
    ELSE IF repl.pc = "ack_sleep" THEN ACK
    ELSE PROMPT
AwaitedEnd ==
    IF repl.pc = "echo_sleep" THEN repl.start_len + Len(repl.line) + Len(EOL)
    ELSE IF repl.pc = "ack_sleep" THEN repl.buffer_now + Len(ACK)
    ELSE repl.start_len + Len(repl.line) + Len(EOL) + Len(PROMPT)

\* What the hub may transmit: the awaited bytes, whole or in halves, or a stray "X"
HubSends ==
    LET e == Awaited
        h == Len(e) \div 2
    IN  {e, SubSeq(e, 1, h), SubSeq(e, h + 1, Len(e)), <<88>>}

\* Bytes from the hub arrive at the serial port.
HubSend ==
    /\ repl.pc \in {"echo_sleep", "idle_sleep", "ack_sleep"}
    /\ \E data \in HubSends :
        /\ Len(repl.buffer) + Len(repl.serial_in) + Len(data)
              <= AwaitedEnd + MaxExtraInput
        /\ repl' = [repl EXCEPT !.serial_in = @ \o data]
    /\ UNCHANGED notReplVars

\* Input sets
ReplLines == {<<49, 43, 49>>}
FileSizes == {0, 1, FILE_PACKET_SIZE, FILE_PACKET_SIZE + MaxFileTail}
Leftovers == {<<>>, <<66>>}

\* Scripts of printable characters, by length: one piece, a piece boundary inside
\* the terminator, two pieces
Script(len) == [i \in 1..len |-> 33 + ((37 * i) % 90)]
Scripts == {Script(len) : len \in {1, PASTE_PIECE - 1, PASTE_PIECE + MaxScriptTail}}

\* No REPLHub is in use.
ReplUnused == repl = ReplIdle("none", <<>>, FALSE, 0, <<>>, <<>>)

\* ------------------------------------------------------- specification

\* A connected PybricksHub on which run() has not been called yet.
RunInit ==
    /\ hub_kind \in HubKinds
    /\ connected = TRUE
    /\ disconnect_observable = "open"
    /\ status_observable = 0
    /\ stream_buf = <<>>
    /\ output = <<>>
    /\ log_file = <<>>
    /\ log_lines = <<>>
    /\ loading = FALSE
    /\ handler_error = <<>>
    /\ mpy \in Payloads
    /\ wait \in BOOLEAN
    /\ pc = "idle"
    /\ block = 0
    /\ off = 0
    /\ queue = <<>>
    /\ subscribed = FALSE
    /\ timer = TimerOff
    /\ user_program_running = <<>>
    /\ status_sub = FALSE
    /\ last_emitted = <<>>
    /\ progress = 0
    /\ result = NoResult
    /\ written = <<>>
    /\ popped = <<>>
    /\ observed = <<>>
    /\ disc_at = ""
    /\ hub_checksum = 0
    /\ orphans = {}

InitRun == RunInit /\ FlashIdle /\ FirmwareIdle /\ LinesIdle /\ ReplUnused

NextRun ==
    \/ RunStart
    \/ SendWrite
    \/ AckResolve
    \/ MonFirst
    \/ MonStart
    \/ MonStop
    \/ SleepReturn
    \/ NusNotify
    \/ StatusNotify
    \/ Disconnect
    \/ TimerExpire

SpecRun == InitRun /\ [][NextRun]_vars

\* flash_firmware has connected a BootloaderConnection and is about to call
\* flash(blob, metadata, delay); no PybricksHub run is going on.
InitFlash ==
    /\ RunInit
    /\ FirmwareIdle
    /\ LinesIdle
    /\ ReplUnused
    /\ hub_kind = "OTHER"
    /\ mpy = <<>>
    /\ wait = FALSE
    /\ firmware_size \in FirmwareSizes
    /\ device_id \in HUB_NAMES
    /\ f_pc = "idle"
    /\ info = NoInfo
    /\ tell = 0
    /\ count = 0
    /\ pbar = 0
    /\ f_connected = TRUE
    /\ f_result = [kind |-> "none", type |-> "", msg |-> ""]
    /\ f_timer = 0
    /\ sent = <<>>
    /\ n_replies = 0

NextFlash ==
    \/ FlashStart
    \/ InfoReply
    \/ EraseReply
    \/ InitReply
    \/ LoopStep
    \/ ChecksumReply
    \/ ChecksumTimeout
    \/ FlashReply

SpecFlash == InitFlash /\ [][NextFlash]_vars

\* create_firmware is about to be called; no hub is in use.
InitFirmware ==
    /\ RunInit
    /\ hub_kind = "OTHER"
    /\ mpy = <<>>
    /\ wait = FALSE
    /\ FlashIdle
    /\ LinesIdle
    /\ ReplUnused
    /\ fw_base \in BaseBlobs
    /\ fw_mpy \in MpyBlobs
    /\ metadata \in Metadatas
    /\ fw_result = NoFirmware

NextFirmware == CreateFirmware

SpecFirmware == InitFirmware /\ [][NextFirmware]_vars

\* A connected PybricksHub with no upload going on, whose hub is about to print.
InitLines ==
    /\ RunInit
    /\ hub_kind = "OTHER"
    /\ mpy = <<>>
    /\ wait = FALSE
    /\ FlashIdle
    /\ FirmwareIdle
    /\ ReplUnused
    /\ line_input \in HubOutputs
    /\ fed = 0
    /\ dispatched = <<>>

NextLines == LinesNotify

SpecLines == InitLines /\ [][NextLines]_vars

\* A REPLHub with an open serial port, on which exec_line or upload_file is about
\* to be called; an earlier operation may have left bytes in its buffer and in the
\* serial port.
InitRepl ==
    /\ RunInit
    /\ hub_kind = "OTHER"
    /\ mpy = <<>>
    /\ wait = FALSE
    /\ FlashIdle
    /\ FirmwareIdle
    /\ LinesIdle
    /\ \E buffer \in Leftovers, waiting \in Leftovers :
          \/ \E line \in ReplLines, w \in BOOLEAN :
                repl = ReplIdle("exec_line", line, w, 0, buffer, waiting)
          \/ \E size \in FileSizes :
                repl = ReplIdle("upload_file", <<>>, FALSE, size, buffer, waiting)

\* The steps of the coroutine
ReplStep ==
    \/ ExecLineStart
    \/ UploadFileStart
    \/ EchoWake
    \/ IdleWake
    \/ AckWake

NextRepl ==
    \/ ReplStep
    \/ ReplTimerExpire
    \/ HubSend

SpecRepl == InitRepl /\ [][NextRepl]_vars

\* A REPLHub on which exec_paste_mode is about to be called
InitPaste ==
    /\ RunInit
    /\ hub_kind = "OTHER"
    /\ mpy = <<>>
    /\ wait = FALSE
    /\ FlashIdle
    /\ FirmwareIdle
    /\ LinesIdle
    /\ \E waiting \in Leftovers, code \in Scripts, w \in BOOLEAN :
          repl = [ReplIdle("exec_paste_mode", <<>>, w, 0, <<>>, waiting)
                    EXCEPT !.code = code]

NextPaste ==
    \/ ExecPasteStart
    \/ PromptWake
    \/ PasteWake
    \/ RunScan
    \/ RunWake
    \/ ReplTimerExpire
    \/ HubAnswer
    \/ HubPrint

SpecPaste == InitPaste /\ [][NextPaste]_vars

\* The event loop runs a coroutine that can run, and time passes.
SpecReplFair == SpecRepl /\ WF_vars(ReplStep) /\ WF_vars(ReplTimerExpire)

\* ------------------------------------------------- reading the run's logs

\* The bytes written to the transport for block n, in the order written.
RECURSIVE ConcatBlock(_, _, _)
ConcatBlock(log, n, i) ==
    IF i > Len(log) THEN <<>>
    ELSE (IF log[i].block = n THEN log[i].data ELSE <<>>) \o ConcatBlock(log, n, i + 1)

WrittenBlock(n) == ConcatBlock(written, n, 1)

\* The highest block a write was made for (0: nothing written yet).
LastBlockWritten == IF written = <<>> THEN 0 ELSE written[Len(written)].block

\* Message n taken from the queue acknowledges block n.
Acked(n) ==
    /\ n <= Len(popped)
    /\ popped[n][1] = xor_bytes(WrittenBlock(n), 0)

MonitorEntered == last_emitted # <<>>
UploadSucceeded == MonitorEntered \/ (pc = "done" /\ ~wait /\ result = Returned)

\* ------------------------------------------------------------------ C1

\* C1: a write for block n+1 is made only after n replies have been taken from
\* the queue, reply k being the XOR of block k's bytes for every k <= n; writes
\* never go back to an earlier block; and the upload has succeeded only when every
\* block of the payload was written and acknowledged.
C1_LockStep ==
    /\ \A i \in DOMAIN written : \A k \in 1..(written[i].block - 1) : Acked(k)
    /\ \A i \in DOMAIN written : i > 1 => written[i - 1].block <= written[i].block
    /\ Len(popped) <= LastBlockWritten
    /\ UploadSucceeded =>
          /\ Len(popped) = 1 + ((Len(mpy) + BLOCK_SIZE - 1) \div BLOCK_SIZE)
          /\ LastBlockWritten = Len(popped)
          /\ \A k \in 1..Len(popped) : Acked(k)

\* Two payload blocks were sent and the upload succeeded.
C1_Witness == UploadSucceeded /\ LastBlockWritten >= 3

\* ------------------------------------------------------------------ C2

\* C2: when the reply taken for block n is not the XOR of block n's bytes, run()
\* has ended with the bad-checksum error holding the expected and the received
\* byte, that reply is the last one taken, and nothing was written past block n.
C2_Mismatch ==
    \A n \in 1..Len(popped) :
        popped[n][1] # xor_bytes(WrittenBlock(n), 0) =>
            /\ pc = "done"
            /\ result = [kind |-> "raised", type |-> "RuntimeError",
                         msg |-> "bad checksum",
                         expected |-> xor_bytes(WrittenBlock(n), 0),
                         actual |-> popped[n][1]]
            /\ n = Len(popped)
            /\ LastBlockWritten = n

\* A payload block (not the length block) was answered with a wrong checksum.
C2_Witness ==
    /\ Len(popped) >= 2
    /\ popped[Len(popped)][1] # xor_bytes(WrittenBlock(Len(popped)), 0)
    /\ result.msg = "bad checksum"

\* ------------------------------------------------------------------ C3

AckWaitEndsEmpty == pc = "ack" /\ queue = <<>> /\ pc' # pc

\* C3 as stated: a wait for a checksum that ends with no reply in the queue, by
\* timeout or by disconnect, fails with the link-lost error and writes nothing.
C3_AsStated ==
    [][AckWaitEndsEmpty => (result' = LinkLost /\ pc' = "done" /\ written' = written)]_vars

\* C3 amended: such a wait fails run() and writes nothing more; the error is
\* asyncio's TimeoutError when the 0.5 s timer ran out and the link is up, the
\* link-lost RuntimeError when the hub disconnected and the timer has not run out,
\* and one of the two when both happened; after the failure nothing is written.
C3_TimeoutOrLinkLost ==
    /\ [][AckWaitEndsEmpty =>
            /\ pc' = "done"
            /\ written' = written
            /\ timer.ms = CHUNK_TIMEOUT_MS
            /\ result' \in {LinkLost, Raised("TimeoutError", "")}
            /\ (timer.expired /\ ~DisconnectFired) => result' = Raised("TimeoutError", "")
            /\ (DisconnectFired /\ ~timer.expired) => result' = LinkLost]_vars
    /\ [][pc = "done" => (written' = written /\ pc' = "done")]_vars

\* The wait for a payload block's checksum timed out.
C3_Witness ==
    /\ pc = "done"
    /\ result = Raised("TimeoutError", "")
    /\ LastBlockWritten >= 2
    /\ Len(popped) = LastBlockWritten - 1
    /\ connected

\* ------------------------------------------------------------------ C4

\* C4: the first write carries exactly 4 bytes, the payload length in
\* little-endian order, and is block 0 on its own; every later write belongs to a
\* payload block and is made only after the reply for the length block was taken
\* and matched the XOR of those 4 bytes.
C4_LengthFirst ==
    written # <<>> =>
        /\ written[1].block = 1
        /\ Len(written[1].data) = LENGTH_BYTES
        /\ Len(mpy) = written[1].data[1] + (256 * written[1].data[2])
                      + (65536 * written[1].data[3]) + (16777216 * written[1].data[4])
        /\ \A i \in 2..Len(written) :
              /\ written[i].block >= 2
              /\ popped # <<>>
              /\ popped[1][1] = xor_bytes(written[1].data, 0)

\* Payload bytes were written.
C4_Witness == Len(written) >= 2 /\ Len(mpy) > 0

\* ------------------------------------------------------------------ C5

\* C5: once the monitor has taken false, true, false from the status queue it
\* sleeps and then returns normally, and it leaves the sleep only when the 0.3 s
\* timer has run out; when it has taken false and the 0.2 s timer runs out with the
\* queue empty and the link up, run() returns at once, having taken nothing more.
C5_Monitor ==
    /\ [](observed = <<FALSE, TRUE, FALSE>> =>
            /\ pc \in {"sleep", "done"}
            /\ pc = "done" => result = Returned)
    /\ [][(pc = "sleep" /\ pc' # pc) =>
            (timer.ms = STOP_GRACE_MS /\ timer.expired /\ result' = Returned)]_vars
    /\ [][(pc = "mon_start" /\ user_program_running = <<>> /\ timer.expired
           /\ ~DisconnectFired /\ pc' # pc) =>
            /\ timer.ms = START_GRACE_MS
            /\ observed = <<FALSE>>
            /\ observed' = observed
            /\ pc' = "done"
            /\ result' = Returned]_vars

\* The monitor saw false, true, false and run() has returned.
C5_Witness == pc = "done" /\ result = Returned /\ observed = <<FALSE, TRUE, FALSE>>

\* ------------------------------------------------------------------ C6

\* C6 as stated, for a disconnect during the final grace sleep (one of the points
\* between the monitor's entry and its return): run() ends with the link-lost
\* error.
C6_AsStated == (pc = "done" /\ disc_at = "sleep") => result = LinkLost

\* ------------------------------------------------------------------ C7

RacedWait == pc \in {"ack", "mon_first", "mon_start", "mon_stop"}

\* C7 as stated: a raced wait that resolves after the disconnect event has fired
\* resolves to the link-lost error, and the awaited value is not taken (waits
\* whose own timer has run out as well are left aside).
C7_AsStated ==
    [][(RacedWait /\ DisconnectFired /\ ~timer.expired /\ pc' # pc) =>
          /\ result' = LinkLost
          /\ popped' = popped
          /\ observed' = observed]_vars

\* ------------------------------------------------------------------ C8

\* The flash-write requests sent so far (PROGRAM_FLASH and PROGRAM_FLASH_BARE
\* share command 0x22).
FlashWrites == SelectSeq(sent, LAMBDA e : e.command = Requests["PROGRAM_FLASH"].command)

\* The 32-bit little-endian address packed after the length byte
PackedAddress(e) ==
    e.header[2] + (256 * e.header[3]) + (65536 * e.header[4]) + (16777216 * e.header[5])

\* C8: every flash write carries 1..32 firmware bytes and the length byte n + 4;
\* the first is addressed at the device start address and each later one at the
\* previous address plus the previous payload length; the write that reaches the
\* end of the firmware, and only that one, is the confirmed PROGRAM_FLASH whose
\* reply is awaited, all others are PROGRAM_FLASH_BARE with no reply awaited and a
\* full 32 bytes; a flash that wrote the whole firmware sent ceil(size / 32) writes.
C8_Chunks ==
    LET W == FlashWrites
    IN  /\ \A j \in 1..Len(W) :
              LET last == PackedAddress(W[j]) + W[j].n = info.start_addr + firmware_size
              IN  /\ W[j].n \in 1..max_payload_size
                  /\ W[j].header[1] = W[j].n + 4
                  /\ PackedAddress(W[j]) =
                        IF j = 1 THEN info.start_addr
                        ELSE PackedAddress(W[j - 1]) + W[j - 1].n
                  /\ last => (W[j].request = "PROGRAM_FLASH" /\ W[j].awaited)
                  /\ ~last => /\ W[j].request = "PROGRAM_FLASH_BARE"
                              /\ ~W[j].awaited
                              /\ W[j].n = max_payload_size
        /\ (f_pc = "done" /\ f_result = FReturned /\ tell = firmware_size) =>
              Len(W) = (firmware_size + max_payload_size - 1) \div max_payload_size

\* A firmware of three chunks was flashed: two bare writes, then the confirmed one.
C8_Witness ==
    /\ f_pc = "done"
    /\ f_result = FReturned
    /\ Len(FlashWrites) = 3
    /\ FlashWrites[1].request = "PROGRAM_FLASH_BARE"
    /\ FlashWrites[2].request = "PROGRAM_FLASH_BARE"
    /\ FlashWrites[3].request = "PROGRAM_FLASH"

\* ------------------------------------------------------------------ C9

\* C9 as stated: flash() does not return normally while part of the firmware is
\* unwritten (a failed liveness poll raises instead).
C9_AsStated == (f_pc = "done" /\ f_result = FReturned) => tell = firmware_size

\* ------------------------------------------------------------------ C10

\* C10 as stated: when the GET_INFO reply names another device type than the
\* metadata, flash() has disconnected, fails with the device-mismatch RuntimeError,
\* and GET_INFO is the only request ever written.
C10_AsStated ==
    (info # NoInfo /\ info.type_id # device_id) =>
        /\ f_pc = "done"
        /\ ~f_connected
        /\ f_result = FRaised("RuntimeError", "firmware is for another hub")
        /\ Len(sent) = 1

\* ------------------------------------------------------------------ C11

\* The 32-bit little-endian word at bytes i..i+3 of an image
LEWord(img, i) == <<img[i] + (256 * img[i + 1]), img[i + 2] + (256 * img[i + 3])>>

\* The sum modulo 2^32 of the little-endian words of img[1..upto]
RECURSIVE LEWordSum(_, _)
LEWordSum(img, upto) ==
    IF upto < 4 THEN <<0, 0>>
    ELSE add32(LEWordSum(img, upto - 4), LEWord(img, upto - 3))

\* The words between the end of the image and the maximum firmware size
UnfilledWords == (metadata.max_size - Len(fw_result.image) + 3) \div 4

\* The sum of the image without its last word, the unfilled region counted as
\* all-ones words
SumBeforeCorrection ==
    AddOnes(LEWordSum(fw_result.image, Len(fw_result.image) - 4), UnfilledWords)

\* C11: an image create_firmware returns is a whole number of words no longer than
\* the maximum firmware size; its little-endian words plus one all-ones word for
\* every unfilled word up to the maximum sum to 0 modulo 2^32; and its last word is
\* 0 when the words before it (with the unfilled ones) already sum to 0.
C11_SumIsZero ==
    fw_result.kind = "image" =>
        LET img == fw_result.image
        IN  /\ Len(img) % 4 = 0
            /\ Len(img) >= 4
            /\ Len(img) <= metadata.max_size
            /\ AddOnes(LEWordSum(img, Len(img)), UnfilledWords) = <<0, 0>>
            /\ SumBeforeCorrection = <<0, 0>> =>
                  LEWord(img, Len(img) - 3) = <<0, 0>>

\* An image with a program blob, an unfilled region and a nonzero correction.
C11_Witness ==
    /\ fw_result.kind = "image"
    /\ fw_mpy # <<>>
    /\ UnfilledWords >= 1
    /\ SumBeforeCorrection # <<0, 0>>
    /\ LEWord(fw_result.image, Len(fw_result.image) - 3) # <<0, 0>>

\* ------------------------------------------------------------------ C12

\* The size of the complete image: base, padding to the offset, size prefix,
\* program blob, alignment padding, checksum word
CompleteSize ==
    LET body == (IF Len(fw_base) > metadata.offset THEN Len(fw_base)
                 ELSE metadata.offset) + 4 + Len(fw_mpy)
    IN  (4 * ((body + 3) \div 4)) + 4

\* C12: once create_firmware has been called, it has exited without an image when
\* the complete image is larger than the maximum firmware size, and it has returned
\* the complete image when that fits and the checksum type is "sum".
C12_SizeCheck ==
    fw_result # NoFirmware =>
        /\ CompleteSize > metadata.max_size =>
              (fw_result.kind = "exit" /\ fw_result.image = <<>>)
        /\ (CompleteSize <= metadata.max_size /\ metadata.checksum_type = "sum") =>
              (fw_result.kind = "image" /\ Len(fw_result.image) = CompleteSize)

\* create_firmware refused an image that is one word or less too large.
C12_Witness ==
    /\ fw_result = FwExit("size")
    /\ CompleteSize > metadata.max_size
    /\ CompleteSize <= metadata.max_size + 4

\* ------------------------------------------------------------------ C13

\* The complete lines of a byte string and what follows the last terminator, read
\* byte by byte: a line ends where a line feed follows a carriage return.
RECURSIVE ScanLines(_, _, _, _)
ScanLines(bytes, i, cur, acc) ==
    IF i > Len(bytes) THEN [lines |-> acc, rest |-> cur]
    ELSE IF bytes[i] = 10 /\ cur # <<>> /\ cur[Len(cur)] = 13
    THEN ScanLines(bytes, i + 1, <<>>, Append(acc, SubSeq(cur, 1, Len(cur) - 1)))
    ELSE ScanLines(bytes, i + 1, Append(cur, bytes[i]), acc)

Notified == ScanLines(SubSeq(line_input, 1, fed), 1, <<>>, <<>>)

\* C13 as stated: however the hub's output was split over the notifications so
\* far, the lines handed to line_handler are exactly the complete lines of the
\* bytes notified, in order and each once, and stream_buf is what follows the last
\* terminator.
C13_AsStated ==
    /\ dispatched = Notified.lines
    /\ stream_buf = Notified.rest

\* ------------------------------------------------------------------ C14

IsBegin(line) == Contains(line, PB_OF) \/ Contains(line, FILE_BEGIN)
IsEnd(line) == ~IsBegin(line) /\ (Contains(line, PB_EOF) \/ Contains(line, FILE_END))

\* Whether a log is open after the first k dispatched lines, when a begin marker
\* opens one only if none is open and an end marker closes the open one.
RECURSIVE OpenAfter(_)
OpenAfter(k) ==
    IF k = 0 THEN FALSE
    ELSE IF IsBegin(dispatched[k]) THEN TRUE
    ELSE IF IsEnd(dispatched[k]) THEN FALSE
    ELSE OpenAfter(k - 1)

RaisedAt(k, msg) == \E e \in DOMAIN handler_error : handler_error[e] = [at |-> k, msg |-> msg]

\* C14: every begin marker handed to line_handler while a log was open made the
\* call raise "Log file is already open!", every end marker handed to it while
\* none was open made it raise "No log file is currently open!", no other call
\* raised, and the log is open exactly when the markers handled so far say so.
C14_Markers ==
    /\ \A k \in 1..Len(dispatched) :
          /\ (IsBegin(dispatched[k]) /\ OpenAfter(k - 1)) =>
                RaisedAt(k, "Log file is already open!")
          /\ (IsEnd(dispatched[k]) /\ ~OpenAfter(k - 1)) =>
                RaisedAt(k, "No log file is currently open!")
    /\ \A e \in DOMAIN handler_error :
          LET k == handler_error[e].at
          IN  \/ IsBegin(dispatched[k]) /\ OpenAfter(k - 1)
              \/ IsEnd(dispatched[k]) /\ ~OpenAfter(k - 1)
    /\ (log_file # <<>>) = OpenAfter(Len(dispatched))

\* Both errors were raised: an end marker with no log open, later a begin marker
\* with the log open.
C14_Witness ==
    /\ \E k \in 1..Len(dispatched) : RaisedAt(k, "Log file is already open!")
    /\ \E k \in 1..Len(dispatched) : RaisedAt(k, "No log file is currently open!")

\* ------------------------------------------------------------- C15

\* The echo of the line exec_line wrote
SentEcho == repl.line \o EOL

\* C15: when exec_line is over, it has failed with the protocol error exactly if
\* the first len(line) + 2 bytes received after the write are not the line plus
\* its terminator.
C15_AsStated ==
    (repl.op = "exec_line" /\ repl.pc = "done") =>
        (repl.result = Raised("ValueError", "Failed to execute line")
            <=> SubSeq(repl.buffer, 1, Len(SentEcho)) # SentEcho)

\* ------------------------------------------------------------- C16

\* The file packets written to the serial port so far, in order
PacketWrites == SelectSeq(repl.serial_out, LAMBDA w : w.kind = "packet")

\* "ACK\r\n" stands in buf exactly at offset at
AckAt(buf, at) == Len(buf) >= at + Len(ACK) /\ SubSeq(buf, at + 1, at + Len(ACK)) = ACK

\* C16: in upload_file every packet has at most FILE_PACKET_SIZE bytes; a packet
\* after the first is written only after the comparison for the packet before it
\* found "ACK\r\n" exactly at the offset the buffer had when that packet was
\* written; and a comparison that finds anything else there ends the upload with
\* the error, the packet it belongs to being the last one written.
C16_AckGatesNextPacket ==
    repl.op = "upload_file" =>
        /\ Len(repl.acks) <= Len(PacketWrites)
        /\ \A k \in 1..Len(PacketWrites) :
              /\ PacketWrites[k].n <= FILE_PACKET_SIZE
              /\ k > 1 => /\ Len(repl.acks) >= k - 1
                          /\ AckAt(repl.acks[k - 1], PacketWrites[k - 1].at)
        /\ \A j \in 1..Len(repl.acks) :
              ~AckAt(repl.acks[j], PacketWrites[j].at) =>
                  /\ Len(PacketWrites) = j
                  /\ repl.pc = "done"
                  /\ repl.result = Raised("ValueError",
                                          "Did not get expected response from the hub.")

\* An upload of two packets, the first acknowledged and the second answered with
\* something else.
C16_Witness ==
    /\ repl.op = "upload_file"
    /\ Len(PacketWrites) = 2
    /\ Len(repl.acks) = 2
    /\ AckAt(repl.acks[1], PacketWrites[1].at)
    /\ ~AckAt(repl.acks[2], PacketWrites[2].at)
    /\ repl.pc = "done"

\* ------------------------------------------------------------- C17

\* Bytes have arrived from the hub since the last packet was written
AckBytesArrived == Len(repl.buffer) + Len(repl.serial_in) > repl.buffer_now

\* C17: upload_file does not wait forever for the acknowledgement of a packet when
\* the hub stays silent: from a wait in which nothing has arrived yet, either
\* bytes arrive or the wait ends.
C17_AsStated ==
    (repl.pc = "ack_sleep" /\ ~AckBytesArrived)
        ~> (repl.pc # "ack_sleep" \/ AckBytesArrived)

\* ------------------------------------------------------------- C18

\* The bytes of all writes made for payload blocks (every block after the length
\* block), in the order written
RECURSIVE ConcatPayload(_, _)
ConcatPayload(log, i) ==
    IF i > Len(log) THEN <<>>
    ELSE (IF log[i].block > 1 THEN log[i].data ELSE <<>>) \o ConcatPayload(log, i + 1)

PayloadWritten == ConcatPayload(written, 1)

\* C18: the bytes written for the payload blocks are, in order, always the first
\* bytes of the payload, each block having at most BLOCK_SIZE bytes; after a
\* successful upload they are the whole payload and the progress reported is its
\* length.
C18_RoundTrip ==
    /\ Len(PayloadWritten) <= Len(mpy)
    /\ PayloadWritten = SubSeq(mpy, 1, Len(PayloadWritten))
    /\ \A i \in DOMAIN written : Len(WrittenBlock(written[i].block)) <= BLOCK_SIZE
    /\ UploadSucceeded => /\ PayloadWritten = mpy
                          /\ progress = Len(mpy)

\* A payload of more than one block, the last one shorter, was uploaded.
C18_Witness ==
    /\ UploadSucceeded
    /\ Len(mpy) > BLOCK_SIZE
    /\ Len(mpy) % BLOCK_SIZE # 0
    /\ progress = Len(mpy)

\* ------------------------------------------------------------- C19

\* run() has just started: it stands before the first write of its first block.
RunJustStarted == pc = "send" /\ block = 1 /\ off = 0

\* C19: when PybricksHub.run has started, the line buffer is empty.
C19_AsStated == RunJustStarted => stream_buf = <<>>

\* ------------------------------------------------------------- C20

\* C20 as stated: on the BOOST Move hub every write carries at most 20 bytes and
\* every write but the latest has been followed by a wait that took its own
\* checksum reply; on the other hubs a write carries at most 100 bytes.
C20_AsStated ==
    /\ hub_kind = "BOOST" =>
          /\ \A i \in DOMAIN written : Len(written[i].data) <= BOOST_MTU_PAYLOAD
          /\ Len(written) <= Len(popped) + 1
          /\ \A i \in 1..(Len(written) - 1) : popped[i][1] = xor_bytes(written[i].data, 0)
    /\ hub_kind # "BOOST" =>
          \A i \in DOMAIN written : Len(written[i].data) <= BLOCK_SIZE

\* C20, amended: on the BOOST Move hub every write carries at most 20 bytes, the
\* writes of one block (all of 20 bytes but the last) follow each other with no
\* wait between them, and one reply, the XOR of the whole block, is waited for
\* after the block's last write and before the next block's first write; on the
\* other hubs every block of at most 100 bytes is one write.
C20_PiecesPerBlock ==
    /\ \A i \in DOMAIN written : \A k \in 1..(written[i].block - 1) : Acked(k)
    /\ Len(popped) <= LastBlockWritten
    /\ \A n \in 1..LastBlockWritten : Len(WrittenBlock(n)) <= BLOCK_SIZE
    /\ hub_kind = "BOOST" =>
          /\ \A i \in DOMAIN written : Len(written[i].data) <= BOOST_MTU_PAYLOAD
          /\ \A i \in 1..(Len(written) - 1) :
                written[i + 1].block = written[i].block =>
                    Len(written[i].data) = BOOST_MTU_PAYLOAD
    /\ hub_kind # "BOOST" =>
          \A i \in 1..(Len(written) - 1) : written[i].block < written[i + 1].block

\* A BOOST Move hub took a whole payload, a block of which went out in several
\* writes answered by one reply.
C20_Witness ==
    /\ hub_kind = "BOOST"
    /\ UploadSucceeded
    /\ Len(written) > Len(popped) + 1

\* ------------------------------------------------------------- C21

\* A line that is neither a begin nor an end marker
IsPlain(line) == ~IsBegin(line) /\ ~IsEnd(line)

\* The plain lines among the first k dispatched that came while no log was open
RECURSIVE OutputAfter(_)
OutputAfter(k) ==
    IF k = 0 THEN <<>>
    ELSE IF IsPlain(dispatched[k]) /\ ~OpenAfter(k - 1)
    THEN Append(OutputAfter(k - 1), dispatched[k])
    ELSE OutputAfter(k - 1)

\* The plain lines among the first k dispatched that came since the log opened
\* last, while it was open
RECURSIVE SinkAfter(_)
SinkAfter(k) ==
    IF k = 0 THEN <<>>
    ELSE IF IsBegin(dispatched[k]) /\ ~OpenAfter(k - 1) THEN <<>>
    ELSE IF IsPlain(dispatched[k]) /\ OpenAfter(k - 1)
    THEN Append(SinkAfter(k - 1), dispatched[k])
    ELSE SinkAfter(k - 1)

\* C21: the output holds, in order, exactly the plain lines handled while no log
\* was open, and the log holds exactly the plain lines handled while it was open;
\* so a line between a begin marker and its end marker is in the log and not in
\* the output.
C21_Dispatch ==
    /\ output = OutputAfter(Len(dispatched))
    /\ log_lines = SinkAfter(Len(dispatched))

\* A log was opened, took one line and was closed, and nothing went to the output.
C21_Witness ==
    /\ Len(dispatched) = 3
    /\ IsBegin(dispatched[1])
    /\ IsPlain(dispatched[2])
    /\ IsEnd(dispatched[3])
    /\ log_lines = <<dispatched[2]>>
    /\ output = <<>>
    /\ log_file = <<>>

\* ------------------------------------------------------------- C22

\* The script pieces written to the serial port so far, in order
PieceWrites == SelectSeq(repl.serial_out, LAMBDA w : w.kind = "piece")

\* The paste-mode-exit byte was written.
ExitWritten == \E i \in DOMAIN repl.serial_out : repl.serial_out[i].kind = "exit"

\* The echo check made for piece j saw the piece's bytes as the first bytes
\* received after the piece was written.
EchoVerified(j) ==
    LET w == PieceWrites[j]
        buf == repl.checks[j].buffer
    IN  /\ Len(buf) >= w.at + w.n
        /\ SubSeq(buf, w.at + 1, w.at + w.n) = w.data

\* C22: in exec_paste_mode a piece has at most PASTE_PIECE bytes; the first piece
\* is written after the paste prompt was read; piece k+1 is written only after the
\* check for piece k saw its echo; a check that saw anything else ends the
\* operation with the error, no further piece and no exit byte being written; and
\* the exit byte is written only after the echo of every piece was seen.
C22_AsStated ==
    repl.op = "exec_paste_mode" =>
        /\ Len(repl.checks) <= Len(PieceWrites)
        /\ \A k \in 1..Len(PieceWrites) :
              /\ PieceWrites[k].n <= PASTE_PIECE
              /\ k = 1 => TailIs(SubSeq(repl.buffer, 1, PieceWrites[1].at), PASTE_PROMPT)
              /\ k > 1 => Len(repl.checks) >= k - 1 /\ EchoVerified(k - 1)
        /\ \A j \in 1..Len(repl.checks) :
              ~EchoVerified(j) =>
                  /\ Len(PieceWrites) = j
                  /\ ~ExitWritten
                  /\ repl.pc = "done"
                  /\ repl.result = Raised("ValueError", "Failed to paste")
        /\ ExitWritten =>
              /\ Len(repl.checks) = Len(PastePieces(repl))
              /\ \A j \in 1..Len(repl.checks) : EchoVerified(j)

\* ------------------------------------------------------------- C23

\* The bytes read since the paste-mode exit, split at every line terminator
RunLines == SplitLines(SubSeq(repl.buffer, repl.run_from + 1, Len(repl.buffer)), <<>>)

\* C23: while exec_paste_mode watches the running script, the lines handed to the
\* line handler are, in order and each once, the first of the complete lines read
\* since the paste-mode exit; when it returns they are all of them, and what is
\* left unforwarded is the unterminated rest, which ends with the prompt.
C23_Forwarding ==
    (repl.op = "exec_paste_mode" /\ ExitWritten /\ repl.wait) =>
        /\ Len(repl.forwarded) <= Len(RunLines.lines)
        /\ repl.forwarded = SubSeq(RunLines.lines, 1, Len(repl.forwarded))
        /\ (repl.pc = "done" /\ repl.result = Returned) =>
              /\ repl.forwarded = RunLines.lines
              /\ TailIs(RunLines.buf, PROMPT)

\* exec_paste_mode returned after the script had printed two lines.
C23_Witness ==
    /\ repl.op = "exec_paste_mode"
    /\ repl.wait
    /\ repl.pc = "done"
    /\ repl.result = Returned
    /\ Len(repl.forwarded) = 2
    /\ repl.forwarded = RunLines.lines

\* ------------------------------------------------------------- C24

\* Requests written whose reply bootloader_request waits for, less replies taken
Outstanding ==
    Cardinality({i \in DOMAIN sent : sent[i].awaited}) - n_replies

\* C24: the first three requests of flash() are GET_INFO, ERASE_FLASH and
\* INIT_LOADER with the firmware size, every later one is a flash write or the
\* checksum poll; request i is written only after the replies to the first three
\* requests before it were taken; and never more than one awaited reply is
\* outstanding.
C24_RequestOrder ==
    /\ \A i \in DOMAIN sent :
          /\ i = 1 => sent[i].request = "GET_INFO"
          /\ i = 2 => sent[i].request = "ERASE_FLASH"
          /\ i = 3 => /\ sent[i].request = "INIT_LOADER"
                      /\ sent[i].header = to_bytes_little(firmware_size, 4)
          /\ i > 3 => sent[i].request \in {"PROGRAM_FLASH", "PROGRAM_FLASH_BARE",
                                           "GET_CHECKSUM"}
          /\ n_replies >= Min(i - 1, 3)
    /\ Outstanding \in {0, 1}

\* A firmware of more than one chunk was flashed to the end.
C24_Witness ==
    /\ f_pc = "done"
    /\ f_result = FReturned
    /\ tell = firmware_size
    /\ Len(sent) >= 5
    /\ sent[Len(sent)].request = "PROGRAM_FLASH"
    /\ Outstanding = 0

\* ------------------------------------------------------------- C25

\* C25: no task made by race_disconnect is pending after its race has ended,
\* however it ended.
C25_AsStated == orphans = {}

\* ------------------------------------------------------------- C26

\* Every value put into the monitor's queue so far, taken or not, in order
Delivered == observed \o user_program_running

\* C26: two consecutive values delivered to the monitor differ, and run() never
\* ends with the AssertionError of the monitor.
C26_Transitions ==
    /\ \A i \in 1..(Len(Delivered) - 1) : Delivered[i] # Delivered[i + 1]
    /\ result # Raised("AssertionError", "")

\* The monitor took 'running' and then 'not running'.
C26_Witness ==
    /\ observed = <<TRUE, FALSE>>
    /\ pc = "sleep"
    /\ status_observable = 0

\* ------------------------------------------------------------- C27

Uploading == pc \in {"send", "ack"}

\* C27: while the upload is in progress no step changes the line buffer, the
\* output, the log or the lines dispatched; the loading flag is set and the
\* acknowledgement subscription is live exactly while the upload is in progress,
\* however it ends; and with the subscription disposed nothing is put into the
\* acknowledgement queue, which is empty when a run starts.
C27_UploadFrame ==
    /\ [][loading => /\ stream_buf' = stream_buf
                     /\ output' = output
                     /\ log_lines' = log_lines
                     /\ dispatched' = dispatched]_vars
    /\ [](loading <=> Uploading)
    /\ [](subscribed <=> Uploading)
    /\ [][~subscribed => (queue' = queue \/ (pc = "idle" /\ queue' = <<>>))]_vars
    /\ [][(~loading /\ ~loading' /\ queue' = queue /\ stream_buf' # stream_buf) =>
            stream_buf' = stream_buf \o <<OUTPUT_BYTE>>]_vars

\* An upload consumed a checksum reply and failed on a wrong one; the flag is
\* cleared, the subscription disposed, and the line buffer holds a byte of
\* output.
C27_Witness ==
    /\ pc = "done"
    /\ result.kind = "raised"
    /\ result.msg = "bad checksum"
    /\ popped # <<>>
    /\ ~loading
    /\ ~subscribed
    /\ stream_buf = <<OUTPUT_BYTE>>

====
